---------------------------- MODULE Spec2Model ----------------------------
(***************************************************************************)
(* A model of lumail2's message entity (src/src/message.cc): the flag      *)
(* state machine of a Local (Maildir) or Remote (IMAP) message, the lazy   *)
(* fetch of a Remote message's body, and the proxy channel it talks to;    *)
(* and of its threader (threader.lua), which builds the forest of          *)
(* conversations from a list of messages.                                  *)
(*                                                                         *)
(* Strings are sequences of one-character strings, so that find, substr,   *)
(* sort and unique are computed the way the C++ code computes them.        *)
(***************************************************************************)
EXTENDS Integers, Sequences, FiniteSets, TLC

VARIABLES
    m_imap,         \* CMessage::m_imap: TRUE for a Remote message
    m_path,         \* CMessage::m_path
    m_imap_flags,   \* CMessage::m_imap_flags
    m_imap_id,      \* CMessage::m_imap_id
    m_time,         \* CMessage::m_time, the revision counter
    disk,           \* the set of paths that name an existing file
    p_mtime,        \* the parent folder's modification time
    p_unread,       \* the parent folder's unread counter
    fetches,        \* how many get_message requests have been answered
    chan,           \* the request line in flight on the proxy channel, or <<>>
    pc,             \* "idle", or the handler blocked in read_imap_output
    denied,         \* how many renames the file system has refused so far
    last            \* what the last handler was called with and returned

msgvars == <<m_imap, m_path, m_imap_flags, m_imap_id, m_time, disk,
             p_mtime, p_unread, fetches, chan, pc, denied, last>>

VARIABLES
    messages,        \* the list Threader.thread was called with
    containers,      \* the containers made so far
    id_table,        \* message-id -> container
    roots,           \* the root set
    overridden,      \* Threader.overridden: messages that lost their container
    subject_table,   \* normalized subject -> container
    without_subject, \* the roots whose normalized subject is empty
    next_msg,        \* the message the first loop is at
    step,            \* the step Threader.thread is at
    first_run,       \* the forest an earlier call returned for the list
    sort_call        \* the promote_unread Threader.sort was called with

thrvars == <<messages, containers, id_table, roots, overridden,
             subject_table, without_subject, next_msg, step, first_run,
             sort_call>>

VARIABLES
    content,         \* what the message's file holds on disk
    m_headers,       \* CMessage::m_headers: lower-cased name -> value
    m_parts,         \* CMessage::m_parts: the top-level parts, by object
    objs,            \* the CMessagePart objects m_parts keeps alive
    adds,            \* how many times add_attachments rewrote the file
    plast,           \* the parsing handler that returned last
    parsed           \* a parse has given a message, and no add_attachments
                     \* call has followed it

prsvars == <<content, m_headers, m_parts, objs, adds, plast, parsed>>

vars == <<msgvars, thrvars, prsvars>>

-----------------------------------------------------------------------------
(* Bounds of the model.                                                    *)

\* The revision counter m_time is not advanced beyond this.
MaxTime == 2

\* No more than this many get_message requests are made.
MaxFetch == 2

\* Threader.thread is called with lists of at most this many messages.
MaxMsgs == 3

\* The file system refuses at most this many renames whose source exists.
MaxDenied == 1

\* add_attachments is called with lists of at most this many file names.
MaxAtts == 2

\* add_attachments rewrites the message's file at most this many times.
MaxAdds == 1

\* headers() and get_parts() are not called once m_parts holds this many
\* top-level parts.
MaxParts == 2

-----------------------------------------------------------------------------
(* Characters and strings.                                                 *)

\* The character codes std::sort, std::unique and toupper work on.
Ord(c) ==
    CASE c = "," -> 44
      [] c = "/" -> 47
      [] c = "2" -> 50
      [] c = "7" -> 55
      [] c = ":" -> 58
      [] c = "N" -> 78
      [] c = "S" -> 83
      [] c = "T" -> 84
      [] c = "a" -> 97
      [] c = "c" -> 99
      [] c = "e" -> 101
      [] c = "m" -> 109
      [] c = "n" -> 110
      [] c = "r" -> 114
      [] c = "s" -> 115
      [] c = "t" -> 116
      [] c = "u" -> 117
      [] c = "w" -> 119

\* toupper(3) on the characters of the model.
ToUpper(c) ==
    CASE c = "n" -> "N"
      [] c = "s" -> "S"
      [] c = "t" -> "T"
      [] OTHER   -> c

\* Whether pat occurs in s at position i (1-based).
MatchAt(s, pat, i) ==
    /\ i >= 1
    /\ i + Len(pat) - 1 <= Len(s)
    /\ \A k \in 1..Len(pat) : s[i + k - 1] = pat[k]

\* std::string::find(pat, from): the first position >= from at which pat
\* occurs, 1-based; 0 stands for std::string::npos.
Find(s, pat, from) ==
    LET hits == {i \in from..Len(s) : MatchAt(s, pat, i)}
    IN  IF hits = {} THEN 0 ELSE CHOOSE i \in hits : \A j \in hits : i <= j

\* The characters of a string, as a set.
Chars(s) == {s[i] : i \in 1..Len(s)}

\* Insert c into the sorted string s, after the characters not greater.
RECURSIVE InsertSorted(_, _)
InsertSorted(c, s) ==
    IF s = <<>> THEN <<c>>
    ELSE IF Ord(c) < Ord(Head(s)) THEN <<c>> \o s
    ELSE <<Head(s)>> \o InsertSorted(c, Tail(s))

\* std::sort(flags.begin(), flags.end()).
RECURSIVE SortStr(_)
SortStr(s) ==
    IF s = <<>> THEN <<>> ELSE InsertSorted(Head(s), SortStr(Tail(s)))

\* flags.erase(std::unique(...), flags.end()): drops a character equal to
\* the one before it.
RECURSIVE UniqueStr(_)
UniqueStr(s) ==
    IF Len(s) <= 1 THEN s
    ELSE IF s[1] = s[2] THEN UniqueStr(Tail(s))
    ELSE <<s[1]>> \o UniqueStr(Tail(s))

\* The erase loop of remove_flag / mark_read: every occurrence of c goes.
RECURSIVE EraseAll(_, _)
EraseAll(s, c) ==
    IF s = <<>> THEN <<>>
    ELSE IF Head(s) = c THEN EraseAll(Tail(s), c)
    ELSE <<Head(s)>> \o EraseAll(Tail(s), c)

SegNew == <<"/", "n", "e", "w", "/">>
SegCur == <<"/", "c", "u", "r", "/">>
Info   == <<":", "2", ",">>


-----------------------------------------------------------------------------
(* The inputs the handlers are called with.                                *)

\* The flag characters handed to add_flag and remove_flag, of a Local and
\* of a Remote message.
FlagChars(imap) == IF imap THEN {"S"} ELSE {"N", "S", "s"}

\* The strings handed to set_flags: canonical ones, an unsorted one, one
\* with a duplicate and a lower-case one; fewer for a Remote message.
FlagArgs(imap) ==
    IF imap
    THEN { <<>>, <<"S">> }
    ELSE { <<>>, <<"S">>, <<"N">>, <<"N", "S">>, <<"S", "N">>, <<"S", "S">>,
           <<"s">> }

\* The strings handed to set_imap_flags when a Remote message is listed.
ImapFlagArgs ==
    { <<>>, <<"S">>, <<"N">>, <<"T">>, <<"S", "N">> }

\* The ':2,<flags>' suffixes a message file starts with (none is <<>>).
InitSuffixes ==
    { <<>>, Info, Info \o <<"S">>, Info \o <<"s", "S">>, Info \o <<"s">> }

\* Maildir folders: /m, and a folder that is itself called new.
InitFiles ==
    { <<"/", "m">> \o SegNew \o <<"a">>,
      <<"/", "m">> \o SegCur \o <<"a">>,
      <<"/", "n", "e", "w">> \o SegCur \o <<"a">> }

LocalPaths == {f \o x : f \in InitFiles, x \in InitSuffixes}

\* The cache file of a Remote message.
CachePath == <<"/", "c", "/", "7">>

\* The remote ids a message is created with.
ImapIds == {7}

\* The name of the parent folder, as CMaildir::path() returns it.
Folder == "INBOX"

\* What the proxy may answer: the calls do not look at it.
Replies == {"OK", "", "garbage"}

\* The outcomes of the rename(2) calls of one handler that makes at most n:
\* TRUE when the file system lets the rename through.
Outcomes(n) == [1..n -> BOOLEAN]

-----------------------------------------------------------------------------
(* The handlers of CMessage, as functions of the message's state st:       *)
(* [imap, path, iflags, id, disk, lines, oks, nren, nfail, nden, hook,     *)
(* ret], where lines are the request lines the handler has sent to the     *)
(* proxy and hook counts the handler's calls of CLua::on_error.            *)

\* rename(2), and CFile::move which wraps it: the outcome is the next of
\* oks, and a missing source always fails.  ret is "the call returned 0".
rename(st, src, dst) ==
    LET ok == Head(st.oks) /\ src \in st.disk
    IN  [st EXCEPT !.disk  = IF ok THEN (@ \ {src}) \cup {dst} ELSE @,
                   !.oks   = Tail(@),
                   !.nren  = @ + 1,
                   !.nfail = IF ok THEN @ ELSE @ + 1,
                   !.nden  = IF Head(st.oks) THEN @ ELSE @ + 1,
                   !.ret   = ok]

\* CMessage::lazy_load: fetch the body when the cache file is absent.
lazy_load(st) ==
    IF st.path \notin st.disk
    THEN [st EXCEPT !.lines = Append(@, <<"get_message", st.id, Folder>>),
                    !.disk  = @ \cup {st.path}]
    ELSE st

\* CMessage::path(): the state after the call; the value is its path.
path(st) == IF st.imap THEN lazy_load(st) ELSE st

\* CMessage::get_flags.
get_flags(st) ==
    IF st.imap THEN st.iflags
    ELSE IF st.path = <<>> THEN <<>>
    ELSE LET pth    == st.path
             offset == Find(pth, Info, 1)
             suffix == IF offset # 0
                       THEN SubSeq(pth, offset + 3, Len(pth)) ELSE <<>>
             flags  == IF Find(pth, SegNew, 1) # 0
                       THEN suffix \o <<"N">> ELSE suffix
         IN  UniqueStr(SortStr(flags))

\* set_flags_dst with the bug of appending a suffix to a name that has one.
set_flags_dst_append(cur_path, flags) == cur_path \o Info \o flags

\* The destination file name set_flags computes.
set_flags_dst(cur_path, flags) ==
    LET offset == Find(cur_path, Info, 1)
    IN  IF offset # 0
        THEN SubSeq(cur_path, 1, offset - 1) \o Info \o flags
        ELSE cur_path \o Info \o flags

\* CMessage::set_flags.
set_flags(st, new_flags) ==
    LET flags    == UniqueStr(SortStr(new_flags))
        s1       == path(st)
        cur_path == s1.path
        dst_path == set_flags_dst(cur_path, flags)
    IN  IF cur_path # dst_path
        THEN [rename(s1, cur_path, dst_path) EXCEPT !.path = dst_path]
        ELSE s1

\* CMessage::add_flag; ret is its return value.
add_flag(st, c) ==
    LET flags == get_flags(st)
    IN  IF Find(flags, <<c>>, 1) = 0
        THEN [set_flags(st, flags \o <<c>>) EXCEPT !.ret = TRUE]
        ELSE [st EXCEPT !.ret = FALSE]

\* CMessage::has_flag.
has_flag(st, c) == Find(get_flags(st), <<ToUpper(c)>>, 1) # 0

\* CMessage::remove_flag; ret is its return value.
remove_flag(st, c0) ==
    LET c       == ToUpper(c0)
        current == get_flags(st)
    IN  IF Find(current, <<c>>, 1) = 0
        THEN [st EXCEPT !.ret = FALSE]
        ELSE [set_flags(st, EraseAll(current, c)) EXCEPT !.ret = TRUE]

\* is_new with the bug of looking at S only.
is_new_unseen(st) == ~has_flag(st, "S")

\* CMessage::is_new.
is_new(st) == has_flag(st, "N") \/ ~has_flag(st, "S")

\* CMessage::mark_unread, the Local branch.
mark_unread_local(st) ==
    IF has_flag(st, "S") THEN remove_flag(st, "S") ELSE st

\* CMessage::mark_read, the Local branch.
mark_read_local(st) ==
    LET c_path == st.path
        offset == Find(c_path, SegNew, 1)
    IN  IF offset # 0
        THEN LET before == SubSeq(c_path, 1, offset - 1)
                 after  == SubSeq(c_path, offset + Len(SegNew), Len(c_path))
                 n_path == before \o SegCur \o after
                 r      == rename(st, c_path, n_path)
             IN  IF r.ret THEN add_flag([r EXCEPT !.path = n_path], "S")
                 ELSE r
        ELSE add_flag(remove_flag(st, "N"), "S")

\* mark_read_flags with the bug of leaving N in place.
mark_read_flags_keep_new(f) ==
    IF Find(f, <<"S">>, 1) = 0 THEN f \o <<"S">> ELSE f

\* The in-memory flags after mark_read on a Remote message.
mark_read_flags(f) ==
    LET g == IF Find(f, <<"N">>, 1) # 0 THEN EraseAll(f, "N") ELSE f
    IN  IF Find(g, <<"S">>, 1) = 0 THEN g \o <<"S">> ELSE g

\* The in-memory flags after mark_unread on a Remote message.
mark_unread_flags(f) ==
    LET g == IF Find(f, <<"S">>, 1) # 0 THEN EraseAll(f, "S") ELSE f
    IN  IF Find(g, <<"N">>, 1) = 0 THEN g \o <<"N">> ELSE g

\* The request lines of mark_read and mark_unread.
mark_read_cmd(id, folder)   == <<"mark_read", id, folder>>
mark_unread_cmd(id, folder) == <<"mark_unread", id, folder>>

\* CMaildir::bump_mtime, on the folder's modification time.
bump_mtime(t) == t + 1

\* The unread counter mark_read leaves in the parent folder.
mark_read_unread(c) == IF c - 1 < 0 THEN 0 ELSE c - 1

\* The unread counter mark_unread leaves in the parent folder.
mark_unread_unread(c) == c + 1

-----------------------------------------------------------------------------
(* The message as a state machine.                                         *)

\* The message's state, as the handlers above take it.
St(oks) ==
    [imap |-> m_imap, path |-> m_path, iflags |-> m_imap_flags,
     id |-> m_imap_id, disk |-> disk, lines |-> <<>>, oks |-> oks,
     nren |-> 0, nfail |-> 0, nden |-> 0, hook |-> 0, ret |-> FALSE]

\* The record of a handler that has just returned: what it was called with,
\* what it returned, whether the proxy's answer to mark_read / mark_unread
\* was "OK", how many renames it attempted, how many of them failed, and how
\* many times it called the error hook.
Done(op, arg, r, reply) ==
    [op |-> op, arg |-> arg, ret |-> r.ret, reply |-> reply,
     nren |-> r.nren, nfail |-> r.nfail, hook |-> r.hook]

\* The constructor: CMessage::CMessage(name, is_local), then parent() and,
\* for a Remote message, the id the listing gave it.
InitMessage ==
    /\ m_imap \in BOOLEAN
    /\ m_path \in IF m_imap THEN {CachePath} ELSE LocalPaths
    /\ m_imap_flags = <<>>
    /\ m_imap_id \in IF m_imap THEN ImapIds ELSE {0}
    /\ m_time = 0
    /\ disk \in IF m_imap THEN {{}, {m_path}} ELSE {{m_path}}
    /\ p_mtime = 0
    /\ p_unread = 0
    /\ fetches = 0
    /\ chan = <<>>
    /\ pc = "idle"
    /\ denied = 0
    /\ last = [op |-> "new", arg |-> <<>>, ret |-> FALSE,
               reply |-> FALSE, nren |-> 0, nfail |-> 0, hook |-> 0]

\* A handler may start: nothing is blocked on the proxy channel.
Ready == pc = "idle"

\* The frame of a handler that touches the file and the path only.  The
\* file system refused r.nden renames, within what the model allows.
FileEffect(r) ==
    /\ denied + r.nden <= MaxDenied
    /\ denied' = denied + r.nden
    /\ fetches + Len(r.lines) <= MaxFetch
    /\ fetches' = fetches + Len(r.lines)
    /\ m_path' = r.path
    /\ disk' = r.disk
    /\ UNCHANGED <<m_imap, m_imap_flags, m_imap_id, m_time, p_mtime,
                   p_unread, chan, pc>>
    /\ UNCHANGED <<thrvars, prsvars>>

\* set_flags(new_flags).
SetFlags ==
    \E new_flags \in FlagArgs(m_imap), oks \in Outcomes(1) :
        LET r == set_flags(St(oks), new_flags)
        IN  /\ Ready
            /\ FileEffect(r)
            /\ last' = Done("set_flags", new_flags, r, FALSE)

\* add_flag(c).
AddFlag ==
    \E c \in FlagChars(m_imap), oks \in Outcomes(1) :
        LET r == add_flag(St(oks), c)
        IN  /\ Ready
            /\ FileEffect(r)
            /\ last' = Done("add_flag", <<c>>, r, FALSE)

\* remove_flag(c).
RemoveFlag ==
    \E c \in FlagChars(m_imap), oks \in Outcomes(1) :
        LET r == remove_flag(St(oks), c)
        IN  /\ Ready
            /\ FileEffect(r)
            /\ last' = Done("remove_flag", <<c>>, r, FALSE)

\* path(), the accessor: a Remote message fetches its body first.
GetPath ==
    LET r == path(St(<<>>))
    IN  /\ Ready
        /\ FileEffect(r)
        /\ last' = Done("path", <<>>, r, FALSE)

\* set_imap_flags(flags), called when a Remote message is listed.
SetImapFlags ==
    \E flags \in ImapFlagArgs :
        /\ Ready
        /\ m_imap
        /\ m_time < MaxTime
        /\ m_imap_flags' = UniqueStr(SortStr(flags))
        /\ m_time' = m_time + 1
        /\ p_mtime' = bump_mtime(p_mtime)
        /\ last' = Done("set_imap_flags", <<>>, St(<<>>), FALSE)
        /\ UNCHANGED <<m_imap, m_path, m_imap_id, disk, p_unread, fetches,
                       chan, pc, denied>>
        /\ UNCHANGED <<thrvars, prsvars>>

\* mark_read() / mark_unread() on a Local message.
MarkLocal ==
    \E oks \in Outcomes(2) :
        /\ Ready
        /\ ~m_imap
        /\ \/ LET r == mark_read_local(St(oks))
              IN  FileEffect(r) /\ last' = Done("mark_read", <<>>, r, FALSE)
           \/ LET r == mark_unread_local(St(oks))
              IN  FileEffect(r) /\ last' = Done("mark_unread", <<>>, r, FALSE)

\* mark_read() / mark_unread() on a Remote message, up to the point where
\* read_imap_output has written the request line and waits for the answer.
MarkRemoteSend ==
    /\ Ready
    /\ m_imap
    /\ m_time < MaxTime
    /\ \/ /\ chan' = mark_read_cmd(m_imap_id, Folder)
          /\ pc' = "mark_read"
       \/ /\ chan' = mark_unread_cmd(m_imap_id, Folder)
          /\ pc' = "mark_unread"
    /\ last' = Done(pc', <<>>, St(<<>>), FALSE)
    /\ UNCHANGED <<m_imap, m_path, m_imap_flags, m_imap_id, m_time, disk,
                   p_mtime, p_unread, fetches, denied>>
    /\ UNCHANGED <<thrvars, prsvars>>

\* The proxy's answer arrives and the blocked handler runs to its end.
ProxyReply ==
    \E reply \in Replies :
        /\ pc \in {"mark_read", "mark_unread"}
        /\ m_imap_flags' = IF pc = "mark_read"
                           THEN mark_read_flags(m_imap_flags)
                           ELSE mark_unread_flags(m_imap_flags)
        /\ m_time' = m_time + 1
        /\ p_mtime' = bump_mtime(p_mtime)
        /\ p_unread' = IF pc = "mark_read"
                       THEN mark_read_unread(p_unread)
                       ELSE mark_unread_unread(p_unread)
        /\ chan' = <<>>
        /\ pc' = "idle"
        /\ last' = [last EXCEPT !.reply = (reply = "OK")]
        /\ UNCHANGED <<m_imap, m_path, m_imap_id, disk, fetches, denied>>
        /\ UNCHANGED <<thrvars, prsvars>>

NextMessage ==
    \/ SetFlags
    \/ AddFlag
    \/ RemoveFlag
    \/ GetPath
    \/ SetImapFlags
    \/ MarkLocal
    \/ MarkRemoteSend
    \/ ProxyReply

\* No message is under the handlers' hands while the threader runs.
NoMessage ==
    /\ m_imap = FALSE
    /\ m_path = <<>>
    /\ m_imap_flags = <<>>
    /\ m_imap_id = 0
    /\ m_time = 0
    /\ disk = {}
    /\ p_mtime = 0
    /\ p_unread = 0
    /\ fetches = 0
    /\ chan = <<>>
    /\ pc = "off"
    /\ denied = 0
    /\ last = <<>>

-----------------------------------------------------------------------------
(* The threader (threader.lua): Threader.thread builds a forest of         *)
(* containers from a list of messages.  A container is a record            *)
(* [parent, message, children, subject]; containers live in the sequence   *)
(* `containers` and are named by their position in it, messages are named  *)
(* by their position in `messages`, and Nil stands for Lua's nil.          *)

Nil == 0

\* The value of a container's subject field before find_subject has set it.
NoSubject == <<"nil">>

\* A message as the threader sees it: the message-ids between angle brackets
\* of its Message-ID, References and In-Reply-To headers, in the order they
\* stand in the header, its Subject, its ctime and whether is_new() holds.
Message(id, refs, irt, subject, ctime, unread) ==
    [id |-> id, refs |-> refs, irt |-> irt, subject |-> subject,
     ctime |-> ctime, unread |-> unread]

SubjX == <<"X">>
SubjReX == <<"R", "e", ":", " ", "X">>
SubjY == <<"Y">>

\* The messages the lists handed to Threader.thread are made of.
MessagePool ==
    { Message(<<1>>, <<>>, <<>>, SubjX, 1, FALSE),
      Message(<<2>>, <<1>>, <<>>, SubjReX, 2, TRUE),
      Message(<<1>>, <<2>>, <<>>, SubjX, 3, FALSE),
      Message(<<>>, <<>>, <<>>, SubjReX, 1, TRUE),
      Message(<<>>, <<1>>, <<>>, SubjX, 2, FALSE),
      Message(<<2>>, <<3, 1>>, <<>>, SubjY, 1, FALSE),
      Message(<<3>>, <<>>, <<2, 1>>, <<>>, 2, TRUE),
      Message(<<3>>, <<1, 2>>, <<2>>, SubjY, 3, FALSE),
      Message(<<2>>, <<1>>, <<>>, SubjY, 1, FALSE),
      Message(<<1>>, <<>>, <<>>, <<>>, 2, TRUE),
      Message(<<3>>, <<>>, <<>>, SubjX, 3, FALSE),
      Message(<<2>>, <<>>, <<>>, SubjReX, 0, TRUE) }

\* The message-ids that occur in the pool.
MessageIds == 1..3

\* The lists of messages Threader.thread is called with.
MessageLists == UNION { [1..n -> MessagePool] : n \in 1..MaxMsgs }

\* All orders in which pairs() may visit the elements of S.
Orders(S) ==
    { f \in [1..Cardinality(S) -> S] :
        \A i, j \in 1..Cardinality(S) : f[i] = f[j] => i = j }

\* string.match(h, "<([^>]+)>"): the first message-id of a header.
first_id(h) == IF h = <<>> THEN Nil ELSE h[1]

\* string.match(h, ".*<([^>]+)>.*"): the greedy prefix leaves the last one.
last_id(h) == IF h = <<>> THEN Nil ELSE h[Len(h)]

\* The character classes of Lua's patterns.
IsSpace(c) == c = " "
Digit == {"0", "1", "2", "3", "4", "5", "6", "7", "8", "9"}

\* "R[Ee]:", "R[Ee]%[%d%]:" and "F[wW][dD]:", each followed by "%s?".
PatRe == << {"R"}, {"e", "E"}, {":"} >>
PatReN == << {"R"}, {"e", "E"}, {"["}, Digit, {"]"}, {":"} >>
PatFwd == << {"F"}, {"w", "W"}, {"d", "D"}, {":"} >>

\* The length of the match of pat and "%s?" at position i of s, 0 for none.
MatchLen(s, pat, i) ==
    IF /\ i + Len(pat) - 1 <= Len(s)
       /\ \A k \in 1..Len(pat) : s[i + k - 1] \in pat[k]
    THEN IF i + Len(pat) <= Len(s) /\ IsSpace(s[i + Len(pat)])
         THEN Len(pat) + 1
         ELSE Len(pat)
    ELSE 0

\* string.gsub(s, pat, ""), from position i on.
RECURSIVE gsub(_, _, _)
gsub(s, pat, i) ==
    IF i > Len(s) THEN <<>>
    ELSE LET n == MatchLen(s, pat, i)
         IN  IF n > 0 THEN gsub(s, pat, i + n)
             ELSE <<s[i]>> \o gsub(s, pat, i + 1)

\* string.match(s, pat) finds something.
match(s, pat) == \E i \in 1..Len(s) : MatchLen(s, pat, i) > 0

\* Container.new(msg).
Container_new(msg) ==
    [parent |-> Nil, message |-> msg, children |-> <<>>, subject |-> NoSubject]

\* table.delete(t, x): t without the element x.
table_delete(t, x) == SelectSeq(t, LAMBDA e : e # x)

\* A has_descandent that looks at the container itself only.
has_descandent_self(cs, self, cont) == self = cont

\* Container.has_descandent(self, cont).
RECURSIVE has_descandent(_, _, _)
has_descandent(cs, self, cont) ==
    \/ self = cont
    \/ \E k \in 1..Len(cs[self].children) :
          has_descandent(cs, cs[self].children[k], cont)

\* Container.remove_child(self, child).
remove_child(cs, self, child) ==
    [cs EXCEPT ![self].children = table_delete(@, child),
               ![child].parent = Nil]

\* Container.add_child(self, child).
add_child(cs, self, child) ==
    LET c1 == IF cs[child].parent # Nil
              THEN remove_child(cs, cs[child].parent, child)
              ELSE cs
    IN  [c1 EXCEPT ![child].parent = self,
                   ![self].children = Append(@, child)]

\* Container.transfer_children(self, new): the children are handed over
\* from the last to the first.
transfer_children(cs, self, new) ==
    LET kids == cs[self].children
        rev == [k \in 1..Len(kids) |-> kids[Len(kids) + 1 - k]]
        c1 == [c \in 1..Len(cs) |->
                 IF \E k \in 1..Len(kids) : kids[k] = c
                 THEN [cs[c] EXCEPT !.parent = new]
                 ELSE cs[c]]
        c2 == [c1 EXCEPT ![new].children = @ \o rev]
    IN  [c2 EXCEPT ![self].children = <<>>]

\* Container.find_subject(self) raises an error: an empty container whose
\* subject is not known yet has no first child, or an empty first child.
find_subject_fails(cs, self) ==
    /\ cs[self].subject = NoSubject
    /\ cs[self].message = Nil
    /\ \/ cs[self].children = <<>>
       \/ cs[cs[self].children[1]].message = Nil

\* What Container.find_subject(self) returns.
find_subject(cs, self) ==
    IF cs[self].subject # NoSubject THEN cs[self].subject
    ELSE IF cs[self].message # Nil THEN messages[cs[self].message].subject
    ELSE messages[cs[cs[self].children[1]].message].subject

\* The containers after Container.find_subject(self) has kept its result.
find_subject_memo(cs, self) ==
    [cs EXCEPT ![self].subject = find_subject(cs, self)]

\* The subject s without "Re:", "Re[n]:" and "Fwd:".
normalize(s) == gsub(gsub(gsub(s, PatRe, 1), PatReN, 1), PatFwd, 1)

\* Container.get_normalized_subject(self).
get_normalized_subject(cs, self) == normalize(find_subject(cs, self))

\* Container.is_reply(self).
is_reply(cs, self) ==
    match(find_subject(cs, self), PatRe) \/ match(find_subject(cs, self), PatReN)

\* A threader without step 4: the empty containers stay where they are.
prune_empty_never(cs, self) == cs

\* Container.prune_empty(self); prune_children is its loop over the
\* children, from the last to the first.
RECURSIVE prune_empty(_, _), prune_children(_, _, _)
prune_children(cs, self, i) ==
    IF i = 0 THEN cs
    ELSE prune_children(prune_empty(cs, cs[self].children[i]), self, i - 1)

prune_empty(cs, self) ==
    LET c1 == prune_children(cs, self, Len(cs[self].children))
    IN  IF c1[self].message # Nil THEN c1
        ELSE IF c1[self].parent # Nil
        THEN IF c1[self].children = <<>>
             THEN remove_child(c1, c1[self].parent, self)
             ELSE remove_child(transfer_children(c1, self, c1[self].parent),
                               c1[self].parent, self)
        ELSE IF Len(c1[self].children) = 1
        THEN LET child == c1[self].children[1]
                 c2 == transfer_children(remove_child(c1, self, child),
                                         child, self)
             IN  [c2 EXCEPT ![self].message = c2[child].message]
        ELSE c1

\* Container.get_references(self), of the message msg the container wraps.
get_references(msg) ==
    LET references == msg.refs
        reply_to == last_id(msg.irt)
        last_ref == IF references = <<>> THEN Nil
                    ELSE references[Len(references)]
    IN  IF last_ref # reply_to /\ reply_to # Nil
        THEN Append(references, reply_to)
        ELSE references

\* A step 1.A that leaves the container of a repeated id with the message
\* it has.
get_container_keep_first(h, msg, msgid) ==
    IF h.tab[msgid] = Nil
    THEN [cs |-> Append(h.cs, Container_new(msg)),
          tab |-> [h.tab EXCEPT ![msgid] = Len(h.cs) + 1],
          over |-> h.over]
    ELSE [cs |-> [h.cs EXCEPT ![h.tab[msgid]].message =
                                  IF @ = Nil THEN msg ELSE @],
          tab |-> h.tab,
          over |-> IF h.cs[h.tab[msgid]].message # Nil
                   THEN h.over \cup {h.cs[h.tab[msgid]].message}
                   ELSE h.over]

\* Step 1.A for a message with a Message-ID: its container is made, or the
\* container its id already has takes the message over.
get_container(h, msg, msgid) ==
    IF h.tab[msgid] = Nil
    THEN [cs |-> Append(h.cs, Container_new(msg)),
          tab |-> [h.tab EXCEPT ![msgid] = Len(h.cs) + 1],
          over |-> h.over]
    ELSE [cs |-> [h.cs EXCEPT ![h.tab[msgid]].message = msg],
          tab |-> h.tab,
          over |-> IF h.cs[h.tab[msgid]].message # Nil
                   THEN h.over \cup {h.cs[h.tab[msgid]].message}
                   ELSE h.over]

\* Step 1.B: the containers of the references refs[k..], linked in a chain;
\* prev is the container of the reference before.
RECURSIVE link_references(_, _, _, _)
link_references(h, refs, k, prev) ==
    IF k > Len(refs) THEN [cs |-> h.cs, tab |-> h.tab, prev |-> prev]
    ELSE LET fresh == h.tab[refs[k]] = Nil
             c1 == IF fresh THEN Append(h.cs, Container_new(Nil)) ELSE h.cs
             cur == IF fresh THEN Len(c1) ELSE h.tab[refs[k]]
             c2 == IF /\ prev # Nil
                      /\ c1[cur].parent = Nil
                      /\ ~has_descandent(c1, cur, prev)
                   THEN add_child(c1, prev, cur)
                   ELSE c1
         IN  link_references([cs |-> c2,
                              tab |-> [h.tab EXCEPT ![refs[k]] = cur]],
                             refs, k + 1, cur)

\* A step 1.C that links nothing.
link_message_never(cs, prev, par) == cs

\* Step 1.C: the message's container par becomes a child of the last
\* reference's container.
link_message(cs, prev, par) ==
    IF prev # Nil /\ ~has_descandent(cs, par, prev)
    THEN add_child(cs, prev, par)
    ELSE cs

\* Step 4: prune_empty on the roots i.. of the root set.
RECURSIVE prune_roots(_, _)
prune_roots(cs, i) ==
    IF i > Len(roots) THEN cs
    ELSE prune_roots(prune_empty(cs, roots[i]), i + 1)

\* Step 5.B: the roots i.. entered in the subject table.
RECURSIVE find_subjects(_, _)
find_subjects(h, i) ==
    IF i > Len(roots) THEN h
    ELSE LET root == roots[i]
             subject == get_normalized_subject(h.cs, root)
             target == IF subject \in DOMAIN h.tab THEN h.tab[subject] ELSE Nil
             cs1 == find_subject_memo(h.cs, root)
         IN  IF find_subject_fails(h.cs, root) THEN [h EXCEPT !.err = TRUE]
             ELSE IF subject = <<>>
             THEN find_subjects([h EXCEPT !.cs = cs1,
                                          !.nosubj = Append(@, root)], i + 1)
             ELSE IF \/ target = Nil
                     \/ h.cs[target].message # Nil /\ h.cs[root].message = Nil
             THEN find_subjects([h EXCEPT !.cs = cs1,
                                          !.tab = (subject :> root) @@ @], i + 1)
             ELSE find_subjects([h EXCEPT !.cs = cs1], i + 1)

\* A step 5.C that puts every root under the entry of the table.
group_root_under_target(h, root, subject, target) ==
    [h EXCEPT !.cs = add_child(h.cs, target, root)]

\* Step 5.C for one root whose subject has the entry target in the table.
group_root(h, root, subject, target) ==
    IF h.cs[target].message = Nil /\ h.cs[root].message = Nil
    THEN [h EXCEPT !.cs = transfer_children(h.cs, root, target)]
    ELSE IF h.cs[target].message = Nil
    THEN [h EXCEPT !.cs = add_child(h.cs, target, root)]
    ELSE IF h.cs[root].message = Nil
    THEN [h EXCEPT !.cs = add_child(h.cs, root, target),
                   !.tab = (subject :> root) @@ @]
    ELSE IF is_reply(h.cs, root) /\ ~is_reply(h.cs, target)
    THEN [h EXCEPT !.cs = add_child(h.cs, target, root)]
    ELSE IF ~is_reply(h.cs, root) /\ is_reply(h.cs, target)
    THEN [h EXCEPT !.cs = add_child(h.cs, root, target),
                   !.tab = (subject :> root) @@ @]
    ELSE LET parent == Len(h.cs) + 1
             c1 == Append(h.cs, Container_new(Nil))
         IN  [h EXCEPT !.cs = add_child(add_child(c1, parent, root),
                                        parent, target),
                       !.tab = (subject :> parent) @@ @]

\* Step 5.C: the roots i.. grouped by subject.
RECURSIVE group_by_subject(_, _)
group_by_subject(h, i) ==
    IF i > Len(roots) THEN h
    ELSE LET root == roots[i]
             subject == get_normalized_subject(h.cs, root)
             target == IF subject \in DOMAIN h.tab THEN h.tab[subject] ELSE Nil
         IN  IF target # Nil /\ target # root
             THEN group_by_subject(group_root(h, root, subject, target), i + 1)
             ELSE group_by_subject(h, i + 1)

\* The oldest child of the container r: the first of those with the
\* smallest ctime.
oldest_child(cs, r) ==
    LET kids == cs[r].children
        ctime(k) == messages[cs[kids[k]].message].ctime
    IN  kids[CHOOSE k \in 1..Len(kids) :
                  /\ \A j \in 1..Len(kids) : ctime(k) <= ctime(j)
                  /\ \A j \in 1..(k - 1) : ctime(j) > ctime(k)]

\* The promotion of the oldest child raises an error: the empty container r
\* has no child, or a child that is empty.
promote_fails(cs, r) ==
    /\ cs[r].message = Nil
    /\ \/ cs[r].children = <<>>
       \/ \E k \in 1..Len(cs[r].children) : cs[cs[r].children[k]].message = Nil

\* The textbook algorithm, which has no promotion: the entry k of the
\* subject table is left as it is.
promote_oldest_never(h, k) == h

\* The promotion for the entry k of the subject table.
promote_oldest(h, k) ==
    LET r == h.tab[k]
        oldest == oldest_child(h.cs, r)
    IN  IF h.cs[r].message # Nil THEN h
        ELSE IF promote_fails(h.cs, r) THEN [h EXCEPT !.err = TRUE]
        ELSE IF is_reply(h.cs, oldest) THEN h
        ELSE [h EXCEPT !.cs = transfer_children(remove_child(h.cs, r, oldest),
                                                r, oldest),
                       !.tab = (k :> oldest) @@ @]

\* The promotion for the entries order[i..] of the subject table.
RECURSIVE promote_all(_, _, _)
promote_all(h, order, i) ==
    IF i > Len(order) \/ h.err THEN h
    ELSE promote_all(promote_oldest(h, order[i]), order, i + 1)

-----------------------------------------------------------------------------
(* Threader.thread as a state machine: one step per message of the first   *)
(* loop, then one step per numbered step of the algorithm.                 *)

\* Threader.thread(messages) is entered.
InitThread ==
    /\ messages \in MessageLists
    /\ containers = <<>>
    /\ id_table = [id \in MessageIds |-> Nil]
    /\ roots = <<>>
    /\ overridden = {}
    /\ subject_table = <<>>
    /\ without_subject = <<>>
    /\ next_msg = 1
    /\ step = "link"
    /\ first_run = <<>>
    /\ sort_call = <<>>

\* Subjects that differ in letter case only, or in text that stands in the
\* middle of the subject.
SubjLowerX == <<"x">>
SubjAX == <<"A", " ", "X">>
SubjAReX == <<"A", " ", "R", "e", ":", " ", "X">>

\* The messages of the lists that differ in their subjects only: none of
\* them names a reference.
SubjectPool ==
    { Message(<<1>>, <<>>, <<>>, SubjX, 1, FALSE),
      Message(<<2>>, <<>>, <<>>, SubjLowerX, 2, FALSE),
      Message(<<>>, <<>>, <<>>, SubjReX, 3, FALSE),
      Message(<<3>>, <<>>, <<>>, SubjAX, 1, FALSE),
      Message(<<>>, <<>>, <<>>, SubjAReX, 2, FALSE) }

SubjectLists == UNION { [1..n -> SubjectPool] : n \in 1..MaxMsgs }

\* Threader.thread(messages) is entered with such a list.
InitSubjects ==
    /\ messages \in SubjectLists
    /\ containers = <<>>
    /\ id_table = [id \in MessageIds |-> Nil]
    /\ roots = <<>>
    /\ overridden = {}
    /\ subject_table = <<>>
    /\ without_subject = <<>>
    /\ next_msg = 1
    /\ step = "link"
    /\ first_run = <<>>
    /\ sort_call = <<>>

\* No call of Threader.thread is under way.
NoThread ==
    /\ messages = <<>>
    /\ containers = <<>>
    /\ id_table = <<>>
    /\ roots = <<>>
    /\ overridden = {}
    /\ subject_table = <<>>
    /\ without_subject = <<>>
    /\ next_msg = 0
    /\ step = "off"
    /\ first_run = <<>>
    /\ sort_call = <<>>

\* Step 1 for a message without a Message-ID.
LinkNoId ==
    /\ step = "link"
    /\ first_id(messages[next_msg].id) = Nil
    /\ containers' = Append(containers, Container_new(next_msg))
    /\ roots' = Append(roots, Len(containers) + 1)
    /\ next_msg' = next_msg + 1
    /\ step' = IF next_msg = Len(messages) THEN "roots" ELSE "link"
    /\ UNCHANGED <<messages, id_table, overridden, subject_table,
                   without_subject>>
    /\ UNCHANGED <<msgvars, prsvars, first_run, sort_call>>

\* Step 1 for a message with a Message-ID.
Link ==
    /\ step = "link"
    /\ first_id(messages[next_msg].id) # Nil
    /\ LET msgid == first_id(messages[next_msg].id)
           h1 == get_container([cs |-> containers, tab |-> id_table,
                                over |-> overridden], next_msg, msgid)
           par == h1.tab[msgid]
           h2 == link_references([cs |-> h1.cs, tab |-> h1.tab],
                                 get_references(messages[next_msg]), 1, Nil)
       IN  /\ containers' = link_message(h2.cs, h2.prev, par)
           /\ id_table' = h2.tab
           /\ overridden' = h1.over
    /\ next_msg' = next_msg + 1
    /\ step' = IF next_msg = Len(messages) THEN "roots" ELSE "link"
    /\ UNCHANGED <<messages, roots, subject_table, without_subject>>
    /\ UNCHANGED <<msgvars, prsvars, first_run, sort_call>>

\* Step 2: the containers of the id table that have no parent join the root
\* set, in the order pairs() visits them.
FindRoots ==
    /\ step = "roots"
    /\ \E order \in Orders({ id_table[id] : id \in { i \in MessageIds :
                               /\ id_table[i] # Nil
                               /\ containers[id_table[i]].parent = Nil } }) :
          roots' = roots \o order
    /\ step' = "prune"
    /\ UNCHANGED <<messages, containers, id_table, overridden, subject_table,
                   without_subject, next_msg>>
    /\ UNCHANGED <<msgvars, prsvars, first_run, sort_call>>

\* Steps 3 and 4: the id table is dropped and the roots are pruned.
Prune ==
    /\ step = "prune"
    /\ containers' = prune_roots(containers, 1)
    /\ id_table' = <<>>
    /\ step' = "subjects"
    /\ UNCHANGED <<messages, roots, overridden, subject_table,
                   without_subject, next_msg>>
    /\ UNCHANGED <<msgvars, prsvars, first_run, sort_call>>

\* Step 5.B: the subject table is filled, unless find_subject raises.
FindSubjects ==
    /\ step = "subjects"
    /\ LET h == find_subjects([cs |-> containers, tab |-> <<>>,
                               nosubj |-> <<>>, err |-> FALSE], 1)
       IN  IF h.err
           THEN /\ step' = "error"
                /\ UNCHANGED <<containers, subject_table, without_subject>>
           ELSE /\ step' = "group"
                /\ containers' = h.cs
                /\ subject_table' = h.tab
                /\ without_subject' = h.nosubj
    /\ UNCHANGED <<messages, id_table, roots, overridden, next_msg>>
    /\ UNCHANGED <<msgvars, prsvars, first_run, sort_call>>

\* Step 5.C: the roots are grouped by subject.
GroupBySubject ==
    /\ step = "group"
    /\ LET h == group_by_subject([cs |-> containers, tab |-> subject_table], 1)
       IN  /\ containers' = h.cs
           /\ subject_table' = h.tab
    /\ step' = "promote"
    /\ UNCHANGED <<messages, id_table, roots, overridden, without_subject,
                   next_msg>>
    /\ UNCHANGED <<msgvars, prsvars, first_run, sort_call>>

\* The empty containers of the subject table give way to their oldest
\* child, in the order pairs() visits the table.
Promote ==
    /\ step = "promote"
    /\ \E order \in Orders(DOMAIN subject_table) :
          LET h == promote_all([cs |-> containers, tab |-> subject_table,
                                err |-> FALSE], order, 1)
          IN  IF h.err
              THEN /\ step' = "error"
                   /\ UNCHANGED <<containers, subject_table>>
              ELSE /\ step' = "merge"
                   /\ containers' = h.cs
                   /\ subject_table' = h.tab
    /\ UNCHANGED <<messages, id_table, roots, overridden, without_subject,
                   next_msg>>
    /\ UNCHANGED <<msgvars, prsvars, first_run, sort_call>>

\* The roots without a subject and the subject table make the new root set,
\* which Threader.thread returns.
Merge ==
    /\ step = "merge"
    /\ \E order \in Orders(DOMAIN subject_table) :
          roots' = without_subject \o
                   [i \in 1..Len(order) |-> subject_table[order[i]]]
    /\ without_subject' = <<>>
    /\ step' = "done"
    /\ UNCHANGED <<messages, containers, id_table, overridden, subject_table,
                   next_msg>>
    /\ UNCHANGED <<msgvars, prsvars, first_run, sort_call>>

\* The tag of the container c in a description of the forest that does not
\* name containers: the message it wraps, and for an empty container the
\* negated least message a child of it wraps.
ForestTag(c) ==
    IF containers[c].message # Nil THEN containers[c].message
    ELSE LET ms == { containers[containers[c].children[k]].message :
                        k \in 1..Len(containers[c].children) } \ {Nil}
         IN  IF ms = {} THEN 0
             ELSE 0 - (CHOOSE m \in ms : \A n \in ms : m <= n)

\* The returned forest: for each root its tag, and for each container that
\* has a parent the tags of the parent and of the container.
Forest ==
    [top   |-> { ForestTag(roots[i]) : i \in 1..Len(roots) },
     links |-> { <<ForestTag(containers[c].parent), ForestTag(c)>> :
                   c \in { d \in 1..Len(containers) :
                             containers[d].parent # Nil } }]

\* Threader.thread has returned and is called again with the same list;
\* Threader.overridden is a field of the module and stays as it is.
Again ==
    /\ step = "done"
    /\ first_run = <<>>
    /\ first_run' = <<Forest>>
    /\ containers' = <<>>
    /\ id_table' = [id \in MessageIds |-> Nil]
    /\ roots' = <<>>
    /\ subject_table' = <<>>
    /\ without_subject' = <<>>
    /\ next_msg' = 1
    /\ step' = "link"
    /\ UNCHANGED <<messages, overridden, sort_call>>
    /\ UNCHANGED <<msgvars, prsvars>>

\* Container.has_unread(self).
RECURSIVE has_unread(_, _)
has_unread(cs, self) ==
    \/ cs[self].message # Nil /\ messages[cs[self].message].unread
    \/ \E k \in 1..Len(cs[self].children) :
          has_unread(cs, cs[self].children[k])

\* cmp_func(a.message, b.message) for the compare function by date: the
\* message of a is older than the message of b.
cmp_wrapper(cs, a, b) ==
    messages[cs[a].message].ctime < messages[cs[b].message].ctime

\* root_cmp_wrapper's choice: an empty root is compared by its first child.
root_cmp_choice(cs, a) ==
    IF cs[a].message = Nil THEN cs[a].children[1] ELSE a

\* table.sort(list, comp) raises an error: the comparator is called, which
\* takes two elements at least, and one of them wraps no message.
sort_fails(cs, list) ==
    /\ Len(list) >= 2
    /\ \E k \in 1..Len(list) : cs[list[k]].message = Nil

\* The same for the sort of the roots: an empty root has no first child,
\* or an empty one.
root_sort_fails(cs, rs) ==
    /\ Len(rs) >= 2
    /\ \E k \in 1..Len(rs) :
          /\ cs[rs[k]].message = Nil
          /\ \/ cs[rs[k]].children = <<>>
             \/ cs[cs[rs[k]].children[1]].message = Nil

\* What table.sort(list, comp) may leave: the elements in an order in
\* which no element is older than one before it; table.sort is not stable.
sorted_orders(cs, list) ==
    { o \in Orders({ list[k] : k \in 1..Len(list) }) :
        \A i, j \in 1..Len(o) : i < j => ~cmp_wrapper(cs, o[j], o[i]) }

\* The same for the roots, under root_cmp_wrapper.
sorted_roots(cs, rs) ==
    { o \in Orders({ rs[k] : k \in 1..Len(rs) }) :
        \A i, j \in 1..Len(o) :
            i < j => ~cmp_wrapper(cs, root_cmp_choice(cs, o[j]),
                                  root_cmp_choice(cs, o[i])) }

\* Container.sort raises an error somewhere in the forest.
container_sort_fails(cs) ==
    \E c \in 1..Len(cs) : sort_fails(cs, cs[c].children)

\* Container.sort on every root: what the containers c.. may be left as.
RECURSIVE container_sort(_, _)
container_sort(cs, c) ==
    IF c > Len(cs) THEN {cs}
    ELSE UNION { container_sort([cs EXCEPT ![c].children = o], c + 1) :
                   o \in sorted_orders(cs, cs[c].children) }

\* The promote_unread loop of Threader.sort, from the root i down: it ends
\* in an error at the first root with an unread message, where
\* table.remove is called with a number in the place of the list.
RECURSIVE promote_unread_loop(_, _, _)
promote_unread_loop(cs, rs, i) ==
    IF i = 0 THEN [roots |-> rs, err |-> FALSE]
    ELSE IF has_unread(cs, rs[i]) THEN [roots |-> rs, err |-> TRUE]
    ELSE promote_unread_loop(cs, rs, i - 1)

\* Threader.sort(roots, cmp_func, promote_unread) on the forest that
\* Threader.thread returned, with the compare function by date.
Sort ==
    /\ step = "done"
    /\ sort_call = <<>>
    /\ \E promote_unread \in BOOLEAN :
          /\ sort_call' = <<promote_unread>>
          /\ IF container_sort_fails(containers)
                \/ root_sort_fails(containers, roots)
             THEN /\ step' = "error"
                  /\ UNCHANGED <<containers, roots>>
             ELSE \E cs \in container_sort(containers, 1) :
                  \E rs \in sorted_roots(cs, roots) :
                     LET p == IF promote_unread
                              THEN promote_unread_loop(cs, rs, Len(rs))
                              ELSE [roots |-> rs, err |-> FALSE]
                     IN  /\ containers' = cs
                         /\ roots' = p.roots
                         /\ step' = IF p.err THEN "error" ELSE "sorted"
    /\ UNCHANGED <<messages, id_table, overridden, subject_table,
                   without_subject, next_msg, first_run>>
    /\ UNCHANGED <<msgvars, prsvars>>

NextThread ==
    \/ LinkNoId
    \/ Link
    \/ FindRoots
    \/ Prune
    \/ FindSubjects
    \/ GroupBySubject
    \/ Promote
    \/ Merge

-----------------------------------------------------------------------------
(* Parsing: what a message's file holds, and CMessage's headers(),         *)
(* get_parts() and add_attachments() over it.                              *)

\* A pointer to no object, and a parameter that a part does not carry.
NULL == [null |-> TRUE]

NoParam == <<"NULL">>

\* tolower(3) on the characters of the model.
ToLower(c) ==
    CASE c = "T" -> "t"
      [] c = "O" -> "o"
      [] c = "C" -> "c"
      [] OTHER   -> c

\* std::transform(nm.begin(), nm.end(), nm.begin(), tolower).
LowerStr(s) == [k \in 1..Len(s) |-> ToLower(s[k])]

\* One header line of a file: its name, and its value either as plain text
\* or as an RFC 2047 encoded word of that text.
Hdr(name, enc, text) == [name |-> name, enc |-> enc, text |-> text]

\* g_mime_utils_header_decode_text: the text of a header value.
header_decode_text(h) == h.text

\* Base64 of a byte string, and its inverse.
b64_encode(bytes) == [k \in 1..Len(bytes) |-> bytes[k] + 100]
b64_decode(body)  == [k \in 1..Len(body) |-> body[k] - 100]

\* A leaf part of a file: content type, the content-type 'name' parameter,
\* the content-disposition 'filename' parameter, the transfer encoding and
\* the encoded body.  It declares no charset.
Leaf(type, name, filename, enc, body) ==
    [multi |-> FALSE, type |-> type, name |-> name, filename |-> filename,
     enc |-> enc, body |-> body, subs |-> <<>>, charset |-> NoParam]

\* A multipart part of a file and its sub-parts.
Multi(type, subs) ==
    [multi |-> TRUE, type |-> type, name |-> NoParam, filename |-> NoParam,
     enc |-> "7bit", body |-> <<>>, subs |-> subs, charset |-> NoParam]

\* A leaf part whose content type declares a charset.
TextLeaf(type, charset, body) ==
    [Leaf(type, NoParam, NoParam, "7bit", body) EXCEPT !.charset = charset]

\* A file: junk lines in front of the message, then its header lines and
\* its top-level part (NULL when the message has no body).
Doc(junk, hdrs, body) == [junk |-> junk, hdrs |-> hdrs, body |-> body]

HdrTo      == Hdr(<<"T", "o">>, FALSE, "bob")
HdrToUpper == Hdr(<<"T", "O">>, TRUE, "eve")
HdrCc      == Hdr(<<"C", "c">>, TRUE, "ann")

PlainBody == Leaf("text/plain", NoParam, NoParam, "7bit", <<1, 2>>)
HtmlBody  == Leaf("text/html", NoParam, NoParam, "base64", b64_encode(<<3>>))
Attached  == Leaf("image/png", <<"n">>, <<"f">>, "base64",
                  b64_encode(<<4, 5>>))
NamedOnly == Leaf("image/png", <<"n">>, NoParam, "7bit", <<6>>)

\* The files a message is created over.
Docs ==
    { Doc(0, <<HdrTo, HdrCc>>, PlainBody),
      Doc(0, <<HdrTo>>, HtmlBody),
      Doc(0, <<HdrTo, HdrToUpper>>, Multi("multipart/mixed",
                                         <<PlainBody, Attached>>)),
      Doc(0, <<HdrCc>>,
          Multi("multipart/mixed",
                <<Multi("multipart/alternative", <<PlainBody, HtmlBody>>),
                  NamedOnly, Attached>>)),
      Doc(1, <<HdrTo, HdrCc>>, PlainBody),
      Doc(2, <<HdrTo>>, PlainBody),
      Doc(3, <<HdrTo>>, PlainBody),
      Doc(0, <<HdrTo>>, NULL) }

\* The path of the message's file.
MsgPath == <<"/", "m", "/", "c", "u", "r", "/", "a">>

\* The files that can be attached and their bytes; /x does not exist.
AttA    == <<"/", "d", "/", "a">>
AttB    == <<"/", "b">>
AttNone == <<"/", "x">>

AttNames == {AttA, AttB, AttNone}

AttExists(name) == name \in {AttA, AttB}

AttBytes(name) == IF name = AttA THEN <<7>> ELSE <<8, 9>>

\* The lists add_attachments is called with.
AttLists ==
    UNION { [1..n -> AttNames] : n \in 0..MaxAtts }

\* CFile::basename: what follows the last '/' of a path.
RECURSIVE basename(_)
basename(pth) ==
    LET k == Find(pth, <<"/">>, 1)
    IN  IF k = 0 THEN pth ELSE basename(SubSeq(pth, k + 1, Len(pth)))

\* CMime::type: the content type sniffed for a file.
mime_type(name) == "application/octet-stream"

\* g_mime_parser_construct_message on a file of which `skipped` lines have
\* been read already: NULL while junk lines remain in front of the message,
\* and a message without the header lines that were skipped over.
construct_message(doc, skipped) ==
    IF doc.junk > skipped THEN NULL
    ELSE LET eaten == skipped - doc.junk
         IN  [hdrs |-> SubSeq(doc.hdrs, eaten + 1, Len(doc.hdrs)),
              body |-> doc.body]

\* The handlers, as functions of the message's state ps:
\* [path, disk, content, headers, parts, objs, adds, hook, attempts, ok],
\* where hook counts the calls of CLua::on_error, attempts the calls of
\* g_mime_parser_construct_message, and ok tells that add_attachments ran
\* to its end.

\* parse_message with the bug of skipping two lines and parsing again
\* whether or not the first attempt gave a message.
parse_message_retry_always(ps) ==
    IF ps.path \notin ps.disk
    THEN [ps EXCEPT !.hook = @ + 1, !.msg = NULL]
    ELSE [ps EXCEPT !.attempts = @ + 2,
                    !.msg = construct_message(ps.content, 2)]

\* What stands for the answer of a Lua state that defines no
\* message_replace function.
NoFunction == <<"nil">>

\* The file a message_replace function has written, and names in its
\* answer: a copy of the message's file.
AltPath == <<"/", "t", "/", "a">>

\* A delete_file that leaves the file where it is.
delete_file_never(files, file) == files

\* CFile::delete_file(file), on the set of existing files.
delete_file(files, file) == files \ {file}

\* CMessage::parse_message(-1) of a Local message: the message it returns,
\* in msg.  updated is what the message_replace function answered.
parse_message(ps) ==
    LET replaced == ps.updated # NoFunction /\ ps.updated # <<>>
        file     == IF replaced THEN ps.updated ELSE ps.path
        gone     == IF replaced
                    THEN [ps EXCEPT !.disk = delete_file(@, file)]
                    ELSE ps
    IN  IF file \notin ps.disk
        THEN [gone EXCEPT !.hook = @ + 1, !.msg = NULL]
        ELSE LET first == construct_message(ps.content, 0)
             IN  IF first # NULL
                 THEN [gone EXCEPT !.attempts = @ + 1, !.msg = first]
                 ELSE [gone EXCEPT !.attempts = @ + 2,
                                   !.msg = construct_message(ps.content, 2)]

\* The data of a leaf part, as g_mime_data_wrapper_write_to_stream gives it.
part_data(part) ==
    IF part.enc = "base64" THEN b64_decode(part.body) ELSE part.body

\* The filename of a part with the bug of not falling back on the
\* content-type parameter.
part_filename_disposition_only(part) == part.filename

\* The filename part2obj finds for a part: the content-disposition
\* 'filename' parameter, else the content-type 'name' parameter.
part_filename(part) ==
    IF part.filename # NoParam THEN part.filename ELSE part.name

\* The charsets that parts declare: three spellings of UTF-8, Latin-1, and
\* one that iconv does not know.
Utf8Lower == <<"u", "t", "f", "-", "8">>
Utf8Upper == <<"U", "T", "F", "-", "8">>
Utf8Mixed == <<"U", "t", "f", "-", "8">>
Latin1    == <<"l", "a", "t", "i", "n", "1">>
Unknown   == <<"x">>

\* The bytes of the model: NUL, an ASCII letter, a byte that is a letter in
\* Latin-1 and that no UTF-8 text holds, and the two bytes UTF-8 writes
\* that letter in.
ByteNul == 0
ByteA == 65
ByteFF == 255
Utf8FF == <<195, 191>>

\* A buffer that was allocated, as distinct from NULL.
Buffer(bytes) == [null |-> FALSE, bytes |-> bytes]

\* NULL, or the buffer with the bytes in front of it.
Prepend(bytes, buffer) ==
    IF buffer = NULL THEN NULL ELSE Buffer(bytes \o buffer.bytes)

\* iconv from the charset to UTF-8: the buffer written, and NULL for an
\* invalid sequence.
RECURSIVE iconv_bytes(_, _)
iconv_bytes(charset, bytes) ==
    IF bytes = <<>> THEN Buffer(<<>>)
    ELSE LET b == Head(bytes)
         IN  IF b < 128
             THEN Prepend(<<b>>, iconv_bytes(charset, Tail(bytes)))
             ELSE IF charset = Latin1
             THEN Prepend(IF b < 192 THEN <<194, b>> ELSE <<195, b - 64>>,
                          iconv_bytes(charset, Tail(bytes)))
             ELSE IF /\ b \in 194..223
                     /\ Len(bytes) >= 2
                     /\ bytes[2] \in 128..191
             THEN Prepend(<<b, bytes[2]>>,
                          iconv_bytes(charset, Tail(Tail(bytes))))
             ELSE NULL

\* strlen(converted): the bytes in front of the first NUL.
RECURSIVE strlen_prefix(_)
strlen_prefix(bytes) ==
    IF bytes = <<>> \/ Head(bytes) = ByteNul THEN <<>>
    ELSE <<Head(bytes)>> \o strlen_prefix(Tail(bytes))

\* g_mime_iconv_open("UTF-8", charset) and g_mime_iconv_strndup: the
\* converted bytes, and NULL when iconv does not know the charset or meets
\* an invalid sequence.
iconv_strndup(charset, bytes) ==
    IF charset = Unknown THEN NULL ELSE iconv_bytes(charset, bytes)

\* The test part2obj makes before it converts a part.
wants_iconv(part) ==
    /\ part.type = "text/plain"
    /\ part.charset # NoParam
    /\ part.charset # Utf8Lower
    /\ part.charset # Utf8Upper

\* The bytes and the length part2obj stores for a leaf part, under the
\* value iconv of the option global.iconv.
part_content(part, iconv) ==
    LET adata == part_data(part)
    IN  IF iconv = 1 /\ wants_iconv(part)
        THEN LET converted == iconv_strndup(part.charset, adata)
             IN  IF converted # NULL THEN strlen_prefix(converted.bytes)
                 ELSE adata
        ELSE adata

\* CMessage::part2obj: the objects with the part's object and those of its
\* sub-parts added, and the part's object in ret.
RECURSIVE part2obj(_, _, _), part2obj_children(_, _, _, _, _)
part2obj(os, part, iconv) ==
    LET aname == part_filename(part)
        obj   == [type     |-> part.type,
                  filename |-> IF aname # NoParam THEN aname ELSE <<>>,
                  content  |-> IF part.multi THEN <<>>
                               ELSE part_content(part, iconv),
                  parent   |-> Nil,
                  children |-> <<>>]
        ret   == Len(os) + 1
    IN  IF part.multi
        THEN part2obj_children(Append(os, obj), part.subs, 1, ret, iconv)
        ELSE [objs |-> Append(os, obj), ret |-> ret]

\* The loop of part2obj over the sub-parts of a multipart, from the i-th.
part2obj_children(os, subs, i, ret, iconv) ==
    IF i > Len(subs) THEN [objs |-> os, ret |-> ret]
    ELSE LET r == part2obj(os, subs[i], iconv)
         IN  part2obj_children(
                 [r.objs EXCEPT ![r.ret].parent = ret,
                                ![ret].children = Append(@, r.ret)],
                 subs, i + 1, ret, iconv)

\* The loop of populate_message over the header lines, from the i-th.
RECURSIVE populate_headers(_, _, _)
populate_headers(hs, hdrs, i) ==
    IF i > Len(hdrs) THEN hs
    ELSE populate_headers(
             (LowerStr(hdrs[i].name) :> header_decode_text(hdrs[i])) @@ hs,
             hdrs, i + 1)

\* CMessage::populate_message(-1).
populate_message(ps) ==
    LET r   == parse_message(ps)
        msg == r.msg
    IN  IF msg = NULL THEN [r EXCEPT !.hook = @ + 1]
        ELSE LET hs == populate_headers(r.headers, msg.hdrs, 1)
             IN  IF msg.body = NULL THEN [r EXCEPT !.headers = hs]
                 ELSE LET o == part2obj(r.objs, msg.body, r.iconv)
                      IN  [r EXCEPT !.headers = hs,
                                    !.objs = o.objs,
                                    !.parts = Append(@, o.ret)]

\* CMessage::headers.
headers(ps) ==
    IF DOMAIN ps.headers = {} THEN populate_message(ps) ELSE ps

\* CMessage::get_parts.
get_parts(ps) ==
    IF Len(ps.parts) = 0 THEN populate_message(ps) ELSE ps

\* The part for one file with the bug of naming it by its whole path.
addition_full_path(name) ==
    Leaf(mime_type(name), name, name, "base64", b64_encode(AttBytes(name)))

\* The part add_attachments builds for one file.
addition(name) ==
    Leaf(mime_type(name), basename(name), basename(name), "base64",
         b64_encode(AttBytes(name)))

\* The bytes of a multipart's sub-parts and boundaries, read as one body.
MultipartText == <<0>>

\* The message's top-level part once add_attachments has set its content
\* type: a multipart is then written under a text/plain header, and its
\* sub-parts are the text of its body.
retyped(part) ==
    IF part.multi
    THEN Leaf("text/plain", NoParam, NoParam, "7bit", MultipartText)
    ELSE [part EXCEPT !.type = "text/plain"]

\* What add_attachments writes to its temporary file: the message with a
\* multipart/mixed of its own top-level part and the additions, or nothing
\* when the file did not parse.
rewritten(message, attachments) ==
    IF message = NULL THEN Doc(0, <<>>, NULL)
    ELSE Doc(0, message.hdrs,
             Multi("multipart/mixed",
                   (IF message.body = NULL THEN <<>>
                    ELSE <<retyped(message.body)>>)
                   \o [k \in 1..Len(attachments) |->
                          addition(attachments[k])]))

\* CMessage::add_attachments; tmp_ok tells whether the temporary file
\* could be opened for writing.
add_attachments(ps, attachments, tmp_ok) ==
    IF Len(attachments) < 1 THEN ps
    ELSE IF ps.path \notin ps.disk THEN [ps EXCEPT !.hook = @ + 1]
    ELSE LET message == construct_message(ps.content, 0)
             r       == [ps EXCEPT !.attempts = @ + 1]
         IN  IF \E k \in 1..Len(attachments) : ~AttExists(attachments[k])
             THEN r
             ELSE IF ~tmp_ok THEN r
             ELSE [r EXCEPT !.content = rewritten(message, attachments),
                            !.parts = <<>>,
                            !.objs = <<>>,
                            !.adds = @ + 1,
                            !.ok = TRUE]

\* The message's state, as the handlers above take it.
Ps ==
    [path |-> m_path, disk |-> disk, content |-> content,
     headers |-> m_headers, parts |-> m_parts, objs |-> objs, adds |-> adds,
     hook |-> 0, attempts |-> 0, ok |-> FALSE, msg |-> NULL,
     updated |-> NoFunction, iconv |-> 0]

\* The record of a handler that has just returned: what it was called with,
\* how many times it called the error hook and the parser, and whether
\* add_attachments ran to its end.
PDone(op, arg, r) ==
    [op |-> op, arg |-> arg, hook |-> r.hook, attempts |-> r.attempts,
     ok |-> r.ok]

\* What a handler leaves behind.
ParseEffect(r) ==
    /\ content' = r.content
    /\ m_headers' = r.headers
    /\ m_parts' = r.parts
    /\ objs' = r.objs
    /\ adds' = r.adds
    /\ UNCHANGED <<msgvars, thrvars>>

\* A Local message over one of the files, or over a file that is not there.
InitParse ==
    /\ m_imap = FALSE
    /\ m_path = MsgPath
    /\ m_imap_flags = <<>>
    /\ m_imap_id = 0
    /\ m_time = 0
    /\ disk \in {{}, {MsgPath}}
    /\ p_mtime = 0
    /\ p_unread = 0
    /\ fetches = 0
    /\ chan = <<>>
    /\ pc = "off"
    /\ denied = 0
    /\ last = <<>>
    /\ content \in Docs
    /\ m_headers = <<>>
    /\ m_parts = <<>>
    /\ objs = <<>>
    /\ adds = 0
    /\ plast = [op |-> "new", arg |-> <<>>, hook |-> 0, attempts |-> 0,
                ok |-> FALSE]
    /\ parsed = FALSE

\* No message is being parsed.
NoParse ==
    /\ content = <<>>
    /\ m_headers = <<>>
    /\ m_parts = <<>>
    /\ objs = <<>>
    /\ adds = 0
    /\ plast = <<>>
    /\ parsed = FALSE

\* A parsing handler may start: no flag handler is blocked on the proxy
\* channel.
Parsing == pc \in {"off", "idle"}

Headers ==
    /\ Parsing
    /\ Len(m_parts) < MaxParts
    /\ LET r == headers(Ps)
       IN  /\ ParseEffect(r)
           /\ plast' = PDone("headers", <<>>, r)
           /\ parsed' = (parsed \/ r.msg # NULL)

GetParts ==
    /\ Parsing
    /\ Len(m_parts) < MaxParts
    /\ LET r == get_parts(Ps)
       IN  /\ ParseEffect(r)
           /\ plast' = PDone("get_parts", <<>>, r)
           /\ parsed' = (parsed \/ r.msg # NULL)

AddAttachments ==
    \E attachments \in AttLists, tmp_ok \in BOOLEAN :
        /\ Parsing
        /\ adds < MaxAdds
        /\ LET r == add_attachments(Ps, attachments, tmp_ok)
           IN  /\ ParseEffect(r)
               /\ plast' = PDone("add_attachments", attachments, r)
               /\ parsed' = FALSE

NextParse ==
    \/ Headers
    \/ GetParts
    \/ AddAttachments

\* The values of the option global.iconv.
IconvOptions == {0, 1}

\* The files whose one part declares a charset, or none.
IconvDocs ==
    { Doc(0, <<HdrTo>>, TextLeaf(type, charset, body)) :
        type \in {"text/plain", "text/html"},
        charset \in {NoParam, Utf8Lower, Utf8Upper, Utf8Mixed, Latin1,
                     Unknown},
        body \in {<<ByteA>>, <<ByteFF>>, Utf8FF, <<ByteA, ByteNul, ByteA>>} }

\* A Local message over one of these files.
InitIconv ==
    /\ m_imap = FALSE
    /\ m_path = MsgPath
    /\ m_imap_flags = <<>>
    /\ m_imap_id = 0
    /\ m_time = 0
    /\ disk = {MsgPath}
    /\ p_mtime = 0
    /\ p_unread = 0
    /\ fetches = 0
    /\ chan = <<>>
    /\ pc = "off"
    /\ denied = 0
    /\ last = <<>>
    /\ content \in IconvDocs
    /\ m_headers = <<>>
    /\ m_parts = <<>>
    /\ objs = <<>>
    /\ adds = 0
    /\ plast = [op |-> "new", arg |-> <<>>, hook |-> 0, attempts |-> 0,
                ok |-> FALSE]
    /\ parsed = FALSE

\* get_parts() under a value of the option global.iconv.
IconvGetParts ==
    \E iconv \in IconvOptions :
        /\ Parsing
        /\ Len(m_parts) < MaxParts
        /\ LET r == get_parts([Ps EXCEPT !.iconv = iconv])
           IN  /\ ParseEffect(r)
               /\ plast' = PDone("get_parts", <<iconv>>, r)
               /\ parsed' = (parsed \/ r.msg # NULL)

NextIconv == IconvGetParts

\* The temporary file of add_attachments, the name mkstemp made.
TmpPath == <<"/", "t", "/", "l">>

\* g_mime_object_write_to_stream(message, ostream): the header block, then
\* the block of the top-level part, the two blocks a file is written in.
write_to_stream(doc) ==
    << [block |-> "headers", of |-> doc.hdrs],
       [block |-> "body", of |-> doc.body] >>

\* The files add_attachments rewrites, which parse at once, and the lists
\* of existing files it is called with.
CopyDocs == {d \in Docs : d.junk = 0}
CopyLists ==
    {a \in AttLists :
        Len(a) >= 1 /\ \A k \in 1..Len(a) : AttExists(a[k])}

\* A Local message over one of the files; no add_attachments call yet.
InitCopy ==
    /\ m_imap = FALSE
    /\ m_path = MsgPath
    /\ m_imap_flags = <<>>
    /\ m_imap_id = 0
    /\ m_time = 0
    /\ disk = {MsgPath}
    /\ p_mtime = 0
    /\ p_unread = 0
    /\ fetches = 0
    /\ chan = <<>>
    /\ pc = "off"
    /\ denied = 0
    /\ last = <<>>
    /\ \E d \in CopyDocs :
          /\ content = write_to_stream(d)
          /\ plast = [op |-> "new", arg |-> <<>>, hook |-> 0,
                      attempts |-> 0, ok |-> FALSE, at |-> "idle",
                      doc |-> d, tmp |-> <<>>]
    /\ m_headers = <<>>
    /\ m_parts = <<>>
    /\ objs = <<>>
    /\ adds = 0
    /\ parsed = FALSE

\* What the steps of add_attachments leave alone.
CopyFrame ==
    /\ UNCHANGED <<m_headers, m_parts, objs, parsed>>
    /\ UNCHANGED <<m_imap, m_path, m_imap_flags, m_imap_id, m_time, p_mtime,
                   p_unread, fetches, chan, pc, denied, last>>
    /\ UNCHANGED thrvars

\* add_attachments(attachments) up to CFile::copy: the message is parsed,
\* the parts are added, and the message is written to the temporary file;
\* the call returns when that file cannot be made.
WriteTmp ==
    \E attachments \in CopyLists, tmp_ok \in BOOLEAN :
        /\ Parsing
        /\ plast.at = "idle"
        /\ adds < MaxAdds
        /\ LET message == construct_message(plast.doc, 0)
           IN  plast' = [plast EXCEPT
                            !.op = "add_attachments",
                            !.arg = attachments,
                            !.attempts = 1,
                            !.at = IF tmp_ok THEN "written" ELSE "returned",
                            !.tmp = IF tmp_ok
                                    THEN write_to_stream(
                                             rewritten(message, attachments))
                                    ELSE <<>>]
        /\ disk' = IF tmp_ok THEN disk \cup {TmpPath} ELSE disk
        /\ UNCHANGED <<content, adds>>
        /\ CopyFrame

\* CFile::copy(tmp_file, m_path) opens the two streams: the std::ofstream
\* over the message's file truncates it.
CopyOpen ==
    /\ plast.at = "written"
    /\ content' = <<>>
    /\ plast' = [plast EXCEPT !.at = "copying"]
    /\ UNCHANGED <<disk, adds>>
    /\ CopyFrame

\* std::copy writes the next block of the temporary file.
CopyBlock ==
    /\ plast.at = "copying"
    /\ Len(content) < Len(plast.tmp)
    /\ content' = Append(content, plast.tmp[Len(content) + 1])
    /\ UNCHANGED <<disk, adds, plast>>
    /\ CopyFrame

\* A write fails, and nothing more reaches the message's file; or all the
\* blocks are written.  The streams are closed.
CopyClose ==
    /\ plast.at = "copying"
    /\ plast' = [plast EXCEPT !.at = "copied"]
    /\ UNCHANGED <<content, disk, adds>>
    /\ CopyFrame

\* CFile::delete_file(tmp_file), and add_attachments returns.
DeleteTmp ==
    /\ plast.at = "copied"
    /\ disk' = delete_file(disk, TmpPath)
    /\ adds' = adds + 1
    /\ plast' = [plast EXCEPT !.at = "returned", !.ok = TRUE]
    /\ UNCHANGED content
    /\ CopyFrame

NextCopy ==
    \/ WriteTmp
    \/ CopyOpen
    \/ CopyBlock
    \/ CopyClose
    \/ DeleteTmp

\* The bytes the skip loop of parse_message may read: `count`.
SkipLimit == 1024

\* A file as the skip loop sees it: its length in bytes, and the positions
\* (from 1) of its newline characters.
File(len, nl) == [len |-> len, nl |-> nl]

\* The lengths and the newline positions of the files: around the start
\* of the file and around the limit of the loop.
SkipLens == {0, 1, 2, 3, SkipLimit - 1, SkipLimit, SkipLimit + 1,
             SkipLimit + 2}
SkipNewlines == {1, 2, 3, SkipLimit - 1, SkipLimit, SkipLimit + 1}

SkipFiles ==
    UNION { { File(len, nl) : nl \in SUBSET {i \in SkipNewlines : i <= len} } :
            len \in SkipLens }

\* read(fd, buf, 1) at the offset pos: the byte that follows, or nothing at
\* the end of the file, where buf keeps what it held.
read(f, pos, buf) ==
    IF pos < f.len
    THEN [pos |-> pos + 1,
          buf |-> IF pos + 1 \in f.nl THEN "\n" ELSE "a"]
    ELSE [pos |-> pos, buf |-> buf]

\* The loop starts with one newline to skip only.
skip_start_one_line ==
    [pos |-> 0, buf |-> "0", newline |-> 1, count |-> SkipLimit]

\* lseek(fd, 0, SEEK_SET), newline = 2, count = 1024 and buf = "\0": the
\* state the loop that skips the lines starts in.
skip_start ==
    [pos |-> 0, buf |-> "0", newline |-> 2, count |-> SkipLimit]

\* The loop goes on.
skip_more(l) == l.newline > 0 /\ l.count > 0

\* One turn of the loop on the file f.
skip_byte(f, l) ==
    LET r == read(f, l.pos, l.buf)
    IN  [pos     |-> r.pos,
         buf     |-> r.buf,
         newline |-> IF r.buf = "\n" THEN l.newline - 1 ELSE l.newline,
         count   |-> l.count - 1]

\* A Local message over a file that g_mime_parser_construct_message makes
\* no message of.
InitSkip ==
    /\ m_imap = FALSE
    /\ m_path = MsgPath
    /\ m_imap_flags = <<>>
    /\ m_imap_id = 0
    /\ m_time = 0
    /\ disk = {MsgPath}
    /\ p_mtime = 0
    /\ p_unread = 0
    /\ fetches = 0
    /\ chan = <<>>
    /\ pc = "off"
    /\ denied = 0
    /\ last = <<>>
    /\ content \in SkipFiles
    /\ m_headers = <<>>
    /\ m_parts = <<>>
    /\ objs = <<>>
    /\ adds = 0
    /\ plast = [op |-> "new", arg |-> <<>>, hook |-> 0, attempts |-> 0,
                ok |-> FALSE, loop |-> skip_start]
    /\ parsed = FALSE

\* What the steps of parse_message leave alone.
SkipFrame ==
    /\ UNCHANGED <<content, m_headers, m_parts, objs, adds, parsed>>
    /\ UNCHANGED <<msgvars, thrvars>>

\* parse_message(-1) on such a file: the first attempt fails and the file
\* is rewound.
ParseFails ==
    /\ Parsing
    /\ plast.op = "new"
    /\ plast' = [op |-> "skipping", arg |-> <<>>, hook |-> 0,
                 attempts |-> 1, ok |-> FALSE, loop |-> skip_start]
    /\ SkipFrame

\* One turn of the loop that skips the lines.
SkipByte ==
    /\ plast.op = "skipping"
    /\ skip_more(plast.loop)
    /\ plast' = [plast EXCEPT !.loop = skip_byte(content, @)]
    /\ SkipFrame

\* The loop is left, the second attempt is made at the offset the loop
\* stopped at, and parse_message returns.
ParseAgain ==
    /\ plast.op = "skipping"
    /\ ~skip_more(plast.loop)
    /\ plast' = [plast EXCEPT !.op = "parse_message", !.attempts = @ + 1]
    /\ SkipFrame

NextSkip ==
    \/ ParseFails
    \/ SkipByte
    \/ ParseAgain

\* The answers of the message_replace function: none is defined, the empty
\* string, the path of the file it wrote, and the path it was given.
HookAnswers == {NoFunction, <<>>, AltPath, MsgPath}

\* The files of the messages that are parsed under a message_replace
\* function: one that parses at once, one that parses after the two lines
\* are skipped, and one that does not parse.
HookDocs ==
    { Doc(0, <<HdrTo, HdrCc>>, PlainBody),
      Doc(2, <<HdrTo>>, PlainBody),
      Doc(3, <<HdrTo>>, PlainBody) }

\* A Local message over one of these files, next to the file the function
\* may name, which is there or not.
InitHook ==
    /\ m_imap = FALSE
    /\ m_path = MsgPath
    /\ m_imap_flags = <<>>
    /\ m_imap_id = 0
    /\ m_time = 0
    /\ disk \in {{MsgPath}, {MsgPath, AltPath}}
    /\ p_mtime = 0
    /\ p_unread = 0
    /\ fetches = 0
    /\ chan = <<>>
    /\ pc = "off"
    /\ denied = 0
    /\ last = <<>>
    /\ content \in HookDocs
    /\ m_headers = <<>>
    /\ m_parts = <<>>
    /\ objs = <<>>
    /\ adds = 0
    /\ plast = [op |-> "new", arg |-> <<>>, hook |-> 0, attempts |-> 0,
                ok |-> FALSE]
    /\ parsed = FALSE

\* What a handler leaves behind when parse_message asks the function.
HookEffect(r) ==
    /\ disk' = r.disk
    /\ content' = r.content
    /\ m_headers' = r.headers
    /\ m_parts' = r.parts
    /\ objs' = r.objs
    /\ adds' = r.adds
    /\ parsed' = (parsed \/ r.msg # NULL)
    /\ UNCHANGED <<m_imap, m_path, m_imap_flags, m_imap_id, m_time, p_mtime,
                   p_unread, fetches, chan, pc, denied, last>>
    /\ UNCHANGED thrvars

\* headers() under a Lua state whose message_replace answers `updated`.
HookHeaders ==
    \E updated \in HookAnswers :
        /\ Parsing
        /\ Len(m_parts) < MaxParts
        /\ LET r == headers([Ps EXCEPT !.updated = updated])
           IN  HookEffect(r) /\ plast' = PDone("headers", updated, r)

\* get_parts() under such a Lua state.
HookGetParts ==
    \E updated \in HookAnswers :
        /\ Parsing
        /\ Len(m_parts) < MaxParts
        /\ LET r == get_parts([Ps EXCEPT !.updated = updated])
           IN  HookEffect(r) /\ plast' = PDone("get_parts", updated, r)

NextHook ==
    \/ HookHeaders
    \/ HookGetParts

\* The files of the messages whose flags change between the parses: one
\* with header lines and a body, one with header lines only, and one that
\* starts with the empty line, a body without header lines.
CacheDocs ==
    { Doc(0, <<HdrTo, HdrCc>>, PlainBody),
      Doc(0, <<HdrTo>>, NULL),
      Doc(0, <<>>, PlainBody) }

\* A Local message over one of these files.
InitCache ==
    /\ m_imap = FALSE
    /\ m_path = MsgPath
    /\ m_imap_flags = <<>>
    /\ m_imap_id = 0
    /\ m_time = 0
    /\ disk = {MsgPath}
    /\ p_mtime = 0
    /\ p_unread = 0
    /\ fetches = 0
    /\ chan = <<>>
    /\ pc = "idle"
    /\ denied = 0
    /\ last = [op |-> "new", arg |-> <<>>, ret |-> FALSE,
               reply |-> FALSE, nren |-> 0, nfail |-> 0, hook |-> 0]
    /\ content \in CacheDocs
    /\ m_headers = <<>>
    /\ m_parts = <<>>
    /\ objs = <<>>
    /\ adds = 0
    /\ plast = [op |-> "new", arg |-> <<>>, hook |-> 0, attempts |-> 0,
                ok |-> FALSE]
    /\ parsed = FALSE

\* The flag handlers of a Local message, between the handlers that read
\* the caches.
NextCache ==
    \/ SetFlags
    \/ AddFlag
    \/ RemoveFlag
    \/ MarkLocal
    \/ Headers
    \/ GetParts

-----------------------------------------------------------------------------
(* The specifications: one message under its flag handlers, one call of    *)
(* Threader.thread, and one message under its parsing handlers.            *)

Init == InitMessage /\ NoThread /\ NoParse

Next == NextMessage

Spec == Init /\ [][Next]_vars

ThreadInit == NoMessage /\ InitThread /\ NoParse

SpecThread == ThreadInit /\ [][NextThread]_vars

NextTwice == NextThread \/ Again

SpecTwice == ThreadInit /\ [][NextTwice]_vars

IconvInit == InitIconv /\ NoThread

SpecIconv == IconvInit /\ [][NextIconv]_vars

CopyInit == InitCopy /\ NoThread

SpecCopy == CopyInit /\ [][NextCopy]_vars

SkipInit == InitSkip /\ NoThread

SpecSkip == SkipInit /\ [][NextSkip]_vars

HookInit == InitHook /\ NoThread

SpecHook == HookInit /\ [][NextHook]_vars

CacheInit == InitCache /\ NoThread

SpecCache == CacheInit /\ [][NextCache]_vars

SubjectInit == NoMessage /\ InitSubjects /\ NoParse

SpecSubject == SubjectInit /\ [][NextThread]_vars

NextSort == NextThread \/ Sort

SpecSort == ThreadInit /\ [][NextSort]_vars

ParseInit == InitParse /\ NoThread

SpecParse == ParseInit /\ [][NextParse]_vars

-----------------------------------------------------------------------------
(* Properties of the flag state machine.                                   *)

\* The message as it stands, for the handlers that only read it.
Msg == St(<<>>)

\* The flag-mutating handlers of a message.
FlagOps == {"set_flags", "add_flag", "remove_flag", "mark_read", "mark_unread"}

\* A canonical flag string: sorted, duplicate-free and upper-case.
IsCanonical(f) ==
    /\ \A i \in 1..Len(f) - 1 : Ord(f[i]) < Ord(f[i + 1])
    /\ \A i \in 1..Len(f) : Ord(f[i]) >= 65 /\ Ord(f[i]) <= 90

\* Whether the path has a '/new/' in it, which is what forces the flag N.
InNew(p) == Find(p, SegNew, 1) # 0

\* C1 (first half): after a flag-mutating call on a Local message, in which
\* a rename may fail, the stored path names a file that exists on disk.
C1_PathNamesFile ==
    (~m_imap /\ last.op \in FlagOps) => m_path \in disk

\* C2 as stated: on a Local message, in new/ or in cur/, set_flags(F) with a
\* canonical F followed by get_flags() returns exactly F.
C2_RoundTrip ==
    (~m_imap /\ last.op = "set_flags" /\ IsCanonical(last.arg))
        => get_flags(Msg) = last.arg

\* C2 as amended: set_flags(F) with a canonical F followed by get_flags()
\* returns exactly F when the path holds no '/new/', and F with N added (a
\* canonical string again) when it does.
C2_RoundTripOutsideNew ==
    (~m_imap /\ last.op = "set_flags" /\ IsCanonical(last.arg))
        => IF InNew(m_path)
           THEN /\ Chars(get_flags(Msg)) = Chars(last.arg) \cup {"N"}
                /\ IsCanonical(get_flags(Msg))
           ELSE get_flags(Msg) = last.arg

\* A set_flags("NS") that renamed a file in cur/ which had another suffix.
C2_Witness ==
    /\ ~m_imap
    /\ last.op = "set_flags"
    /\ last.arg = <<"N", "S">>
    /\ last.nren = 1
    /\ last.nfail = 0
    /\ ~InNew(m_path)
    /\ m_path \in disk

\* C3 (the flags it promises): mark_read() on a Local message in new/, when
\* its renames succeed, leaves get_flags() with S and without N.
C3_MarkReadSeenNotNew ==
    [][(/\ ~m_imap
        /\ InNew(m_path)
        /\ last'.op = "mark_read"
        /\ last'.nren >= 1
        /\ last'.nfail = 0)
        => (/\ "S" \in Chars(get_flags(Msg))'
            /\ "N" \notin Chars(get_flags(Msg))')]_vars

\* C4 (the return value): add_flag(c) and remove_flag(c) on a Local message
\* whose renames succeed return true exactly when get_flags() differs before
\* and after the call.
C4_ReturnTellsChange ==
    [][(~m_imap /\ last'.op \in {"add_flag", "remove_flag"} /\ last'.nfail = 0)
        => (last'.ret = (get_flags(Msg)' # get_flags(Msg)))]_vars

\* C5 (the Remote half): get_flags() of a Remote message is sorted,
\* duplicate-free and upper-case after any sequence of set_imap_flags,
\* mark_read and mark_unread.
C5_RemoteFlagsCanonical ==
    (m_imap /\ pc = "idle") => IsCanonical(get_flags(Msg))

\* C6: is_new() is true exactly when get_flags() holds N or does not hold S,
\* in every reachable state of a Local or a Remote message.
C6_IsNew ==
    is_new(Msg) <=>
        ("N" \in Chars(get_flags(Msg)) \/ "S" \notin Chars(get_flags(Msg)))

\* A message that some handler has left with neither N nor S, which is new.
C6_Witness ==
    /\ last.op \in FlagOps
    /\ "N" \notin Chars(get_flags(Msg))
    /\ "S" \notin Chars(get_flags(Msg))
    /\ is_new(Msg)

\* C7: set_flags, add_flag and remove_flag on a Remote message perform no
\* rename and leave no ':2,' flag suffix in its stored path.
C7_RemoteNotRenamed ==
    (m_imap /\ last.op \in {"set_flags", "add_flag", "remove_flag"})
        => (last.nren = 0 /\ Find(m_path, Info, 1) = 0)

\* C8: mark_read() / mark_unread() on a Remote message puts its one request
\* line on the channel while the flags, the revision counter and the folder
\* are still untouched; when the answer is in, whatever it says, the flags
\* hold S and not N (read) or N and not S (unread), the revision counter has
\* grown by one, the folder's modification time has grown, and the channel
\* is free again.
C8_RemoteMark ==
    [][/\ (pc = "idle" /\ pc' # "idle")
            => /\ chan' = <<pc', m_imap_id, Folder>>
               /\ m_imap_flags' = m_imap_flags
               /\ m_time' = m_time
               /\ p_mtime' = p_mtime
               /\ p_unread' = p_unread
       /\ (pc # "idle" /\ pc' = "idle")
            => /\ chan' = <<>>
               /\ last'.op = pc
               /\ m_time' = m_time + 1
               /\ p_mtime' > p_mtime
               /\ IF pc = "mark_read"
                  THEN /\ "S" \in Chars(m_imap_flags')
                       /\ "N" \notin Chars(m_imap_flags')
                  ELSE /\ "N" \in Chars(m_imap_flags')
                       /\ "S" \notin Chars(m_imap_flags')]_vars

\* A mark_read() of a Remote message flagged N that has returned although
\* the proxy did not answer "OK".
C8_Witness ==
    /\ m_imap
    /\ pc = "idle"
    /\ last.op = "mark_read"
    /\ ~last.reply
    /\ m_time = 2
    /\ m_imap_flags = <<"S">>

\* C9 (second half): once one get_message fetch of a Remote message has been
\* answered, no later access sends get_message for it again.
C9_FetchedOnce ==
    m_imap => fetches <= 1

-----------------------------------------------------------------------------
(* Properties of the threader.                                             *)

\* Threader.thread has returned its forest.
Threaded == step = "done"

\* The container c is one of the roots of the returned forest.
IsRoot(c) == \E i \in 1..Len(roots) : roots[i] = c

\* The message i has no Message-ID.
HasNoId(i) == first_id(messages[i].id) = Nil

\* C10: in the forest Threader.thread returns, every message without a
\* Message-ID is wrapped by a root container that has no parent, whatever
\* the subjects and references of the other messages are.
C10_NoIdIsRoot ==
    Threaded =>
        \A i \in 1..Len(messages) :
            HasNoId(i) =>
                \A c \in 1..Len(containers) :
                    containers[c].message = i =>
                        IsRoot(c) /\ containers[c].parent = Nil

\* The container c wraps the message i.
Wraps(c, i) == containers[c].message = i

\* The message m has the Message-ID id, the References refs and no
\* In-Reply-To.
HasIdRefs(m, id, refs) == m.id = <<id>> /\ m.refs = refs /\ m.irt = <<>>

\* The list is A (Message-ID <1>) and B (Message-ID <2>, References <1>),
\* A being the message a and B the message b of the list.
IsAB(a, b) ==
    /\ Len(messages) = 2
    /\ {a, b} = {1, 2}
    /\ HasIdRefs(messages[a], 1, <<>>)
    /\ HasIdRefs(messages[b], 2, <<1>>)

\* The forest is one root wrapping the message a whose only child wraps the
\* message b and has no children.
OneRootOneChild(a, b) ==
    /\ Len(roots) = 1
    /\ Wraps(roots[1], a)
    /\ containers[roots[1]].parent = Nil
    /\ Len(containers[roots[1]].children) = 1
    /\ LET c == containers[roots[1]].children[1]
       IN  /\ Wraps(c, b)
           /\ containers[c].parent = roots[1]
           /\ containers[c].children = <<>>

\* C11: for A (Message-ID <1>) and B (Message-ID <2>, References <1>), in
\* either order and whatever their subjects, Threader.thread returns one
\* root, wrapping A, whose only child wraps B.
C11_ReplyUnderParent ==
    \A a, b \in 1..2 : (Threaded /\ IsAB(a, b)) => OneRootOneChild(a, b)

\* B came first in the list, with a subject that is not A's, and the forest
\* is A over B.
C11_Witness ==
    /\ Threaded
    /\ IsAB(2, 1)
    /\ messages[1].subject = SubjY
    /\ messages[2].subject = SubjX
    /\ OneRootOneChild(2, 1)

\* The container a is reached from the container c in n steps along the
\* parent fields at most.
RECURSIVE IsAncestor(_, _, _)
IsAncestor(a, c, n) ==
    /\ n > 0
    /\ containers[c].parent # Nil
    /\ \/ containers[c].parent = a
       \/ IsAncestor(a, containers[c].parent, n - 1)

\* No container is its own ancestor, and the children lists say what the
\* parent fields say, so that no container is its own descendant either.
Acyclic ==
    /\ \A c \in 1..Len(containers) : ~IsAncestor(c, c, Len(containers))
    /\ \A c, d \in 1..Len(containers) :
          (containers[d].parent = c) <=>
              (\E k \in 1..Len(containers[c].children) :
                  containers[c].children[k] = d)

\* The list is two messages that reference each other.
IsMutual ==
    /\ Len(messages) = 2
    /\ \E x, y \in MessageIds :
          /\ x # y
          /\ HasIdRefs(messages[1], x, <<y>>)
          /\ HasIdRefs(messages[2], y, <<x>>)

\* Exactly one of the containers wrapping the two messages of the list is
\* the parent of the other.
OneDirection ==
    \E c, d \in 1..Len(containers) :
        /\ {containers[c].message, containers[d].message} = {1, 2}
        /\ containers[d].parent = c
        /\ containers[c].parent # d
        /\ \A e \in 1..Len(containers) :
              containers[e].message # Nil => e \in {c, d}

\* How many steps Threader.thread has before it at most.
StepsLeft ==
    CASE step = "link" -> 7 + Len(messages) - next_msg
      [] step = "roots" -> 6
      [] step = "prune" -> 5
      [] step = "subjects" -> 4
      [] step = "group" -> 3
      [] step = "promote" -> 2
      [] step = "merge" -> 1
      [] OTHER -> 0

\* C12: at every step of Threader.thread no container is its own ancestor
\* or descendant, every step brings the call nearer to its end, and for two
\* messages that reference each other exactly one of the two is the parent
\* of the other in the result.
C12_AcyclicAndTerminates ==
    /\ [](Acyclic /\ ((Threaded /\ IsMutual) => OneDirection))
    /\ [][StepsLeft' < StepsLeft]_vars

\* Two messages that reference each other have been threaded.
C12_Witness == Threaded /\ IsMutual /\ OneDirection

\* The root set is two containers that wrap messages whose subjects are the
\* same but for the reply prefix, the reply p and the non-reply q.
ReplyAndNonReply(p, q) ==
    /\ Len(roots) = 2
    /\ {p, q} = {roots[1], roots[2]}
    /\ p # q
    /\ containers[p].message # Nil
    /\ containers[q].message # Nil
    /\ match(messages[containers[p].message].subject, PatRe)
    /\ ~match(messages[containers[q].message].subject, PatRe)
    /\ ~match(messages[containers[q].message].subject, PatReN)
    /\ normalize(messages[containers[p].message].subject) =
           normalize(messages[containers[q].message].subject)
    /\ normalize(messages[containers[q].message].subject) # <<>>

\* C13: when the root set is a root with subject X and a root with subject
\* 'Re: X', in either order, the forest Threader.thread returns is the one
\* root X with the root 'Re: X' as its only child.
C13_ReplyUnderNonReply ==
    [][\A p, q \in 1..Len(containers) :
         (step = "merge" /\ step' = "done" /\ ReplyAndNonReply(p, q))
            => /\ roots' = <<q>>
               /\ containers'[q].parent = Nil
               /\ \E k \in 1..Len(containers'[q].children) :
                     containers'[q].children[k] = p
               /\ containers'[p].parent = q]_vars

\* The reply came first in the list and is older than the non-reply, and
\* the forest is the non-reply over the reply.
C13_Witness ==
    /\ Threaded
    /\ Len(messages) = 2
    /\ messages[1].subject = SubjReX
    /\ messages[2].subject = SubjX
    /\ messages[1].ctime < messages[2].ctime
    /\ messages[1].id = <<>>
    /\ messages[2].id = <<>>
    /\ OneRootOneChild(2, 1)

-----------------------------------------------------------------------------
(* Properties of the flag handlers' failures and renames.                  *)

\* C14: a rename that fails inside set_flags or mark_read on a Local
\* message is signalled to the caller: the two handlers return nothing, so
\* the call has invoked the error hook.
C14_FailureSignalled ==
    (~m_imap /\ last.op \in {"set_flags", "mark_read"} /\ last.nfail > 0)
        => last.hook > 0

\* C17: a call of set_flags, add_flag, remove_flag, mark_read or mark_unread
\* on a Local message attempts at most one rename.
C17_OneRename ==
    (~m_imap /\ last.op \in FlagOps) => last.nren <= 1

\* The number of messages of the folder for which is_new() is true: the
\* folder of the model holds the one message.
NewMessages == IF is_new(Msg) THEN 1 ELSE 0

\* C20: when the unread counter of a Remote folder equals the number of its
\* new messages, it still does after a call of mark_read or mark_unread has
\* run to its end, and it does not exceed the number of messages.
C20_UnreadCounter ==
    [][(m_imap /\ pc \in {"mark_read", "mark_unread"} /\ pc' = "idle"
            /\ p_unread = NewMessages)
          => (p_unread' = NewMessages' /\ p_unread' <= 1)]_vars

-----------------------------------------------------------------------------
(* Properties of parsing and of the part tree.                             *)

\* The handlers that parse the file when their cache is empty.
ParseOps == {"headers", "get_parts"}

\* C15: a call of headers() or get_parts() parses the file at most twice,
\* the second time only when the first attempt gave no message, and when
\* the second gives none either the error hook has been called and the
\* header map and the part list are empty.
C15_TwoAttempts ==
    plast.op \in ParseOps =>
        /\ plast.attempts <= 2
        /\ (plast.attempts = 2 => construct_message(content, 0) = NULL)
        /\ (plast.attempts = 2 /\ construct_message(content, 2) = NULL)
              => (plast.hook >= 1 /\ DOMAIN m_headers = {} /\ m_parts = <<>>)

\* headers() has parsed twice a file that starts with three junk lines, and
\* has called the error hook.
C15_Witness ==
    /\ plast.op = "headers"
    /\ content.junk = 3
    /\ plast.attempts = 2
    /\ plast.hook = 1
    /\ m_parts = <<>>

\* C16: when add_attachments has run to its end, the cached header map and
\* the cached part list are both empty, so that the next headers() or
\* get_parts() parses the rewritten file.
C16_CachesInvalidated ==
    (plast.op = "add_attachments" /\ plast.ok)
        => (DOMAIN m_headers = {} /\ m_parts = <<>>)

\* The filename a source part carries: its content-disposition 'filename'
\* parameter, else its content-type 'name' parameter, else none.
Carried(part) ==
    IF part.filename # NoParam THEN part.filename
    ELSE IF part.name # NoParam THEN part.name
    ELSE <<>>

\* CMessagePart::is_attachment: the object was built with a filename.
IsAttachment(o) == objs[o].filename # <<>>

\* The object o and the objects below it are the tree of the source part:
\* one child per sub-part, in source order, with o as its parent, each
\* built with the filename its source part carries.
RECURSIVE TreeOf(_, _)
TreeOf(o, part) ==
    /\ objs[o].type = part.type
    /\ objs[o].filename = Carried(part)
    /\ Len(objs[o].children) = Len(part.subs)
    /\ \A k \in 1..Len(part.subs) :
          /\ objs[objs[o].children[k]].parent = o
          /\ TreeOf(objs[o].children[k], part.subs[k])

\* A multipart/mixed of one text/plain part and one attachment part.
IsMixedPair(part) ==
    /\ part # NULL
    /\ part.multi
    /\ part.type = "multipart/mixed"
    /\ Len(part.subs) = 2
    /\ part.subs[1].type = "text/plain"
    /\ Carried(part.subs[1]) = <<>>
    /\ Carried(part.subs[2]) # <<>>

\* C18: every top-level object of the part list is the tree of the file's
\* top-level part, and for a multipart/mixed of a text/plain part and an
\* attachment part it has two children of which exactly the second is an
\* attachment, under the filename of its source part.
C18_PartTree ==
    \A t \in 1..Len(m_parts) :
        /\ objs[m_parts[t]].parent = Nil
        /\ TreeOf(m_parts[t], content.body)
        /\ IsMixedPair(content.body)
              => LET kids == objs[m_parts[t]].children
                 IN  /\ Len(kids) = 2
                     /\ ~IsAttachment(kids[1])
                     /\ IsAttachment(kids[2])
                     /\ objs[kids[2]].filename = Carried(content.body.subs[2])

\* get_parts() has built the tree of a file that holds a multipart/mixed of
\* a text/plain part and an attachment named f.
C18_Witness ==
    /\ plast.op = "get_parts"
    /\ adds = 0
    /\ Len(m_parts) = 1
    /\ IsMixedPair(content.body)
    /\ LET kids == objs[m_parts[1]].children
       IN  /\ Len(kids) = 2
           /\ objs[kids[1]].filename = <<>>
           /\ objs[kids[2]].filename = <<"f">>
           /\ objs[kids[2]].parent = m_parts[1]

\* The file holds a single-part message that parses as it stands.
SinglePart(doc) ==
    /\ doc.junk = 0
    /\ doc.body # NULL
    /\ ~doc.body.multi

\* C19: when add_attachments has added k >= 1 files to a single-part
\* message, get_parts() on the rewritten file gives one multipart/mixed
\* root with 1 + k children: the original body first, then one attachment
\* per file in the order given, under the file's basename and with the
\* file's bytes as content.
C19_BodyThenAttachments ==
    [][(adds' = adds + 1 /\ plast'.ok /\ SinglePart(content))
          => LET atts == plast'.arg
                 r    == get_parts(Ps')
                 kids == r.objs[r.parts[1]].children
             IN  /\ Len(atts) >= 1
                 /\ Len(r.parts) = 1
                 /\ r.objs[r.parts[1]].type = "multipart/mixed"
                 /\ Len(kids) = 1 + Len(atts)
                 /\ r.objs[kids[1]].content = part_data(content.body)
                 /\ r.objs[kids[1]].filename = Carried(content.body)
                 /\ \A k \in 1..Len(atts) :
                       /\ r.objs[kids[k + 1]].filename = basename(atts[k])
                       /\ r.objs[kids[k + 1]].content = AttBytes(atts[k])
                       /\ r.objs[kids[k + 1]].children = <<>>]_vars

\* /d/a and /b have been added to a message with a text/plain body, and
\* get_parts() has built the three parts of the rewritten file.
C19_Witness ==
    /\ plast.op = "get_parts"
    /\ adds = 1
    /\ Len(m_parts) = 1
    /\ objs[m_parts[1]].type = "multipart/mixed"
    /\ LET kids == objs[m_parts[1]].children
       IN  /\ Len(kids) = 3
           /\ objs[kids[1]].content = <<1, 2>>
           /\ objs[kids[2]].filename = <<"a">>
           /\ objs[kids[2]].content = <<7>>
           /\ objs[kids[3]].filename = <<"b">>
           /\ objs[kids[3]].content = <<8, 9>>

-----------------------------------------------------------------------------
(* Properties of the linking, the pruning and the grouping of the threader. *)

\* C21: while Threader.thread links the messages, a container that has a
\* parent keeps that parent.
C21_FirstParentWins ==
    [][step = "link"
          => \A c \in 1..Len(containers) :
                containers[c].parent # Nil
                   => containers'[c].parent = containers[c].parent]_vars

\* C22: Threader.thread raises no runtime error: no lookup of a subject or
\* of a ctime meets an empty container without a first child that wraps a
\* message.
C22_NoRuntimeError == step # "error"

\* The container c is in the forest: it is in the root set or has a parent.
InForest(c) == IsRoot(c) \/ containers[c].parent # Nil

\* The prune pass over the root set has just ended.
Pruned == step = "subjects"

\* C23: after the prune pass the forest holds no empty container without
\* children, every container below a root wraps a message, and no empty
\* root has exactly one child.
C23_PrunedForest ==
    Pruned =>
        \A c \in 1..Len(containers) :
            InForest(c) =>
                /\ containers[c].message = Nil => containers[c].children # <<>>
                /\ containers[c].parent # Nil => containers[c].message # Nil
                /\ (IsRoot(c) /\ containers[c].message = Nil)
                      => Len(containers[c].children) # 1

\* The container c is in the returned forest: a root, or below one.
InReturned(c) ==
    IsRoot(c) \/ \E r \in 1..Len(containers) :
                    IsRoot(r) /\ IsAncestor(r, c, Len(containers))

\* The containers of the returned forest that wrap the message i.
Holders(i) ==
    { c \in 1..Len(containers) : InReturned(c) /\ containers[c].message = i }

\* The Message-ID of the message i is used again by a later message.
Superseded(i) ==
    /\ ~HasNoId(i)
    /\ \E j \in (i + 1)..Len(messages) :
          first_id(messages[j].id) = first_id(messages[i].id)

\* C24: in the returned forest every message is wrapped by exactly one
\* container, but for a message whose Message-ID a later message uses
\* again: that one is in the overridden record and in no container.
C24_PlacedOnce ==
    Threaded =>
        \A i \in 1..Len(messages) :
            IF Superseded(i)
            THEN Holders(i) = {} /\ i \in overridden
            ELSE Cardinality(Holders(i)) = 1 /\ i \notin overridden

\* Three messages have been threaded of which the first two have the same
\* Message-ID: the second is placed and the first is not.
C24_Witness ==
    /\ Threaded
    /\ Len(messages) = 3
    /\ Superseded(1)
    /\ ~Superseded(2)
    /\ overridden = {1}
    /\ Holders(1) = {}
    /\ Cardinality(Holders(2)) = 1
    /\ Cardinality(Holders(3)) = 1

\* No two messages of the list have the same ctime.
DistinctCtimes ==
    \A i, j \in 1..Len(messages) :
        messages[i].ctime = messages[j].ctime => i = j

\* C25: a second call of Threader.thread with the same list returns the
\* forest the first call returned: the same roots, empty or not, and the
\* same parent/child relations, whatever order pairs() visits the id table
\* and the subject table in.  It is stated for lists without equal ctimes,
\* where the oldest child of a container is one message.
C25_SameForest ==
    (Threaded /\ first_run # <<>> /\ DistinctCtimes)
        => Forest = first_run[1]

\* The messages the container c and the containers below it wrap.
RECURSIVE SubtreeMessages(_)
SubtreeMessages(c) ==
    (IF containers[c].message # Nil THEN {containers[c].message} ELSE {})
    \cup UNION { SubtreeMessages(containers[c].children[k]) :
                   k \in 1..Len(containers[c].children) }

\* The place in the input list of the earliest message of the thread c,
\* and past the end of the list for a thread without messages.
Earliest(c) ==
    LET ms == SubtreeMessages(c)
    IN  IF ms = {} THEN Len(messages) + 1
        ELSE CHOOSE m \in ms : \A n \in ms : m <= n

\* C26: the roots of the returned forest stand in arrival order: a root
\* comes before another one exactly when its earliest message comes
\* earlier in the input list.
C26_RootsInArrivalOrder ==
    Threaded =>
        \A i, j \in 1..Len(roots) :
            i < j <=> Earliest(roots[i]) < Earliest(roots[j])

\* The roots i and j of the returned list are in the order the sort by date
\* gives: the later one is not older than the earlier one.
InSortOrder(i, j) ==
    ~cmp_wrapper(containers, root_cmp_choice(containers, roots[j]),
                 root_cmp_choice(containers, roots[i]))

\* C27: Threader.sort called with promote_unread = true returns the roots
\* with every root that has an unread message after every root that has
\* none, and in the order of the sort inside each of the two groups.
C27_UnreadLast ==
    sort_call = <<TRUE>> =>
        /\ step = "sorted"
        /\ \A i, j \in 1..Len(roots) :
              i < j =>
                 /\ has_unread(containers, roots[i])
                       => has_unread(containers, roots[j])
                 /\ (has_unread(containers, roots[i])
                        <=> has_unread(containers, roots[j]))
                       => InSortOrder(i, j)

\* The direct children of the container r that no child of r is older than.
OldestChildren(cs, r) ==
    { c \in { cs[r].children[k] : k \in 1..Len(cs[r].children) } :
        \A k \in 1..Len(cs[r].children) :
           messages[cs[c].message].ctime
              <= messages[cs[cs[r].children[k]].message].ctime }

\* An empty root of a subject group in the returned forest has children,
\* and an oldest one of them is a reply.
EmptyRootOverReply ==
    \A k \in DOMAIN subject_table :
       containers[subject_table[k]].message = Nil =>
          /\ containers[subject_table[k]].children # <<>>
          /\ \E o \in OldestChildren(containers, subject_table[k]) :
                is_reply(containers, o)

\* The promotion has replaced the empty root r of the subject k, whose
\* oldest children are no replies, by an oldest child that has all its
\* former siblings among its children.
PromotedOldest(k, r) ==
    /\ subject_table'[k] \in OldestChildren(containers, r)
    /\ containers'[subject_table'[k]].message # Nil
    /\ containers'[subject_table'[k]].parent = Nil
    /\ \A j \in 1..Len(containers[r].children) :
          LET c == containers[r].children[j]
          IN  c # subject_table'[k] =>
                 /\ containers'[c].parent = subject_table'[k]
                 /\ \E i \in 1..Len(containers'[subject_table'[k]].children) :
                       containers'[subject_table'[k]].children[i] = c

\* C28: in the forest Threader.thread returns, the root of a subject group
\* is empty only if its oldest direct child is a reply; otherwise the
\* oldest child has become the root of the group, with all its former
\* siblings among its children.
C28_OldestPromoted ==
    [][/\ (step = "merge" /\ step' = "done") => EmptyRootOverReply'
       /\ (step = "promote" /\ step' = "merge") =>
             \A k \in DOMAIN subject_table :
                (/\ containers[subject_table[k]].message = Nil
                 /\ \A o \in OldestChildren(containers, subject_table[k]) :
                       ~is_reply(containers, o))
                   => PromotedOldest(k, subject_table[k])]_vars

\* Two messages of one subject that are no replies and name no reference
\* were threaded: step 5.C put them under a new empty root, and the
\* promotion made the older one the root, over the younger one.
C28_Witness ==
    /\ Threaded
    /\ Len(messages) = 2
    /\ \A i \in 1..2 :
          /\ messages[i].subject = SubjX
          /\ messages[i].refs = <<>>
          /\ messages[i].irt = <<>>
    /\ messages[2].ctime < messages[1].ctime
    /\ Len(roots) = 1
    /\ containers[roots[1]].message = 2
    /\ Len(containers[roots[1]].children) = 1
    /\ containers[containers[roots[1]].children[1]].message = 1

\* The letter c without its case.
FoldCase(c) ==
    CASE c = "A" -> "a"
      [] c = "R" -> "r"
      [] c = "E" -> "e"
      [] c = "X" -> "x"
      [] c = "Y" -> "y"
      [] OTHER   -> c

\* The length of a 'Re:', 'Re[n]:' or 'Fwd:' prefix of the subject s, in any
\* letter case, and of the whitespace after it; 0 for none.
RECURSIVE SpaceRun(_, _)
SpaceRun(s, i) ==
    IF i <= Len(s) /\ IsSpace(s[i]) THEN 1 + SpaceRun(s, i + 1) ELSE 0

PrefixLen(s, p) ==
    IF /\ Len(p) <= Len(s)
       /\ \A k \in 1..Len(p) :
             \/ FoldCase(s[k]) = p[k]
             \/ p[k] = "#" /\ s[k] \in Digit
    THEN Len(p) + SpaceRun(s, Len(p) + 1)
    ELSE 0

RePrefixLen(s) ==
    IF PrefixLen(s, <<"r", "e", ":">>) > 0
    THEN PrefixLen(s, <<"r", "e", ":">>)
    ELSE PrefixLen(s, <<"r", "e", "[", "#", "]", ":">>)

\* The subject s without its leading prefix and without letter case.
GroupKey(s) ==
    LET n == IF RePrefixLen(s) > 0 THEN RePrefixLen(s)
             ELSE PrefixLen(s, <<"f", "w", "d", ":">>)
        t == SubSeq(s, n + 1, Len(s))
    IN  [k \in 1..Len(t) |-> FoldCase(t[k])]

\* The root of the returned forest above the container c, c itself for a
\* root.
RECURSIVE TopOf(_, _)
TopOf(c, n) ==
    IF containers[c].parent = Nil \/ n = 0 THEN c
    ELSE TopOf(containers[c].parent, n - 1)

\* The messages i and j of the list are in one tree of the returned forest.
SameGroup(i, j) ==
    \E c, d \in 1..Len(containers) :
       /\ containers[c].message = i
       /\ containers[d].message = j
       /\ TopOf(c, Len(containers)) = TopOf(d, Len(containers))

\* C29: of a list of messages that name no reference, two are put in the
\* same subject group exactly when their subjects are equal without letter
\* case and without a leading 'Re:', 'Fwd:' or 'Re[n]:' and the whitespace
\* after it, text in the middle of a subject being left alone; and a
\* subject counts as a reply only when it starts with a 'Re' prefix.
C29_GroupedBySubject ==
    Threaded =>
       /\ \A i, j \in 1..Len(messages) :
             (i \notin overridden /\ j \notin overridden) =>
                (SameGroup(i, j)
                   <=> GroupKey(messages[i].subject)
                          = GroupKey(messages[j].subject))
       /\ \A c \in 1..Len(containers) :
             (containers[c].message # Nil /\ is_reply(containers, c))
                => RePrefixLen(messages[containers[c].message].subject) > 0

\* The message-id id occurs in the list of message-ids refs.
Occurs(id, refs) == \E k \in 1..Len(refs) : refs[k] = id

\* C30: the reference chain built for a message of the list is the
\* message-ids of its References header, in order, followed by the first
\* message-id of its In-Reply-To header unless that one occurs among them.
C30_ReferenceChain ==
    \A i \in 1..(next_msg - 1) :
       first_id(messages[i].id) # Nil =>
          get_references(messages[i])
             = IF \/ first_id(messages[i].irt) = Nil
                  \/ Occurs(first_id(messages[i].irt), messages[i].refs)
               THEN messages[i].refs
               ELSE Append(messages[i].refs, first_id(messages[i].irt))

-----------------------------------------------------------------------------
(* Properties of Threader.sort, of the caches and of the flags of a path.  *)

\* The containers of the returned forest that are no roots wrap a message,
\* and an empty root has a first child that wraps one.
ComparableForest ==
    \A c \in 1..Len(containers) :
       /\ (InReturned(c) /\ ~IsRoot(c)) => containers[c].message # Nil
       /\ (IsRoot(c) /\ containers[c].message = Nil) =>
             /\ containers[c].children # <<>>
             /\ containers[containers[c].children[1]].message # Nil

\* C31: on a forest that Threader.thread returned, Threader.sort calls the
\* compare function with two messages only: no sort of a list of children
\* and no sort of the roots meets a container without a message to compare.
C31_ComparatorSafe ==
    /\ Threaded =>
          /\ ComparableForest
          /\ ~container_sort_fails(containers)
          /\ ~root_sort_fails(containers, roots)
    /\ step = "sorted" => ComparableForest

\* Threader.sort has sorted a forest of two roots, one of them empty over
\* two children: the compare function was called for the children and for
\* the roots.
C31_Witness ==
    /\ step = "sorted"
    /\ Len(roots) = 2
    /\ \E i \in 1..2 :
          /\ containers[roots[i]].message = Nil
          /\ Len(containers[roots[i]].children) = 2

\* The step is a call of headers() or get_parts() that has left its record.
CacheRead == plast' # plast /\ plast'.op \in {"headers", "get_parts"}

\* C32: once a parse has given a message, headers() and get_parts() return
\* what is cached and do not parse the file again, whatever flag handlers
\* run in between, until add_attachments is called; and the flag handlers
\* leave both caches as they are.
C32_ParsedOnce ==
    [][/\ (parsed /\ CacheRead) =>
             /\ plast'.attempts = 0
             /\ m_headers' = m_headers
             /\ m_parts' = m_parts
       /\ (last' # last) =>
             /\ m_headers' = m_headers
             /\ m_parts' = m_parts]_vars

\* C37: whatever headers(), get_parts() and add_attachments calls were made
\* and whatever the parses gave, the cached part list of the message holds
\* one top-level part at most.
C37_OneTopLevelPart == Len(m_parts) <= 1

\* The position of the last "/" of the path p, 0 for none.
LastSlash(p) ==
    LET hits == {i \in 1..Len(p) : p[i] = "/"}
    IN  IF hits = {} THEN 0 ELSE CHOOSE i \in hits : \A j \in hits : j <= i

\* The directory that holds the file of the path p is called new.
HeldInNew(p) ==
    /\ LastSlash(p) >= Len(SegNew)
    /\ SubSeq(p, LastSlash(p) - Len(SegNew) + 1, LastSlash(p)) = SegNew

\* The flags written after ':2,' in the path p.
SuffixFlags(p) ==
    IF Find(p, Info, 1) = 0 THEN <<>>
    ELSE SubSeq(p, Find(p, Info, 1) + Len(Info), Len(p))

\* C33: get_flags() on a Local message gives the flags of the ':2,' suffix
\* of its path, with N added exactly when the directory that holds the file
\* is new/; a message in cur/ gets no forced N, whatever the other
\* components of its path are.
C33_ForcedNInNewOnly ==
    (~m_imap /\ Ready) =>
       get_flags(St(<<>>))
          = UniqueStr(SortStr(IF HeldInNew(m_path)
                              THEN SuffixFlags(m_path) \o <<"N">>
                              ELSE SuffixFlags(m_path)))

\* C34: on a Local message whose renames succeed, has_flag(c) is true when
\* add_flag(c) has just returned and false when remove_flag(c) has just
\* returned, for every flag character c, in upper or in lower case.
C34_HasFlagFollows ==
    (~m_imap /\ Ready /\ last.nfail = 0) =>
       /\ last.op = "add_flag" => has_flag(St(<<>>), last.arg[1])
       /\ last.op = "remove_flag" => ~has_flag(St(<<>>), last.arg[1])

\* The handler that has just returned called parse_message.
ParseCalled(p) == p.op \in {"headers", "get_parts"} /\ p.attempts + p.hook > 0

\* The answer a of the message_replace function names another file to parse.
Replaced(a) == a # NoFunction /\ a # <<>>

\* C35: when the message_replace function answers a path, the file of that
\* path is gone when parse_message returns, whether the file could not be
\* opened, was parsed, or was not parsed after the retry either; when there
\* is no function, or its answer is the empty string, parse_message deletes
\* no file.
C35_AlternateDeleted ==
    [][ParseCalled(plast') =>
          IF Replaced(plast'.arg)
          THEN plast'.arg \notin disk' /\ disk' \subseteq disk
          ELSE disk' = disk]_vars

\* The function answered the path of a file that was there, the file was
\* not parsed, after the retry either, and it is gone; the message's own
\* file is still there.
C35_Witness ==
    /\ ParseCalled(plast)
    /\ plast.arg = AltPath
    /\ AltPath \notin disk
    /\ MsgPath \in disk
    /\ plast.attempts = 2
    /\ parsed = FALSE

\* C36: parsing a message, by headers() or get_parts(), never deletes the
\* message's own file, whatever the message_replace function answers, the
\* path it was given included.
C36_OwnFileKept ==
    [][(m_path \in disk) => (m_path \in disk')]_vars

\* The position of the second newline character of the file f, 0 when it
\* has fewer than two.
SecondNewline(f) ==
    LET seconds == {i \in f.nl : Cardinality({j \in f.nl : j < i}) = 1}
    IN  IF seconds = {} THEN 0 ELSE CHOOSE i \in seconds : TRUE

\* C38: after a first parse that failed, the skip loop of parse_message
\* ends after 1024 bytes read at most; when the first 1024 bytes of the
\* file hold two newline characters, the retry starts at the byte after
\* the second one; and the parse is retried once.
C38_SkipTwoLines ==
    /\ plast.op = "skipping" =>
          /\ plast.loop.count \in 0..SkipLimit
          /\ plast.loop.pos <= SkipLimit - plast.loop.count
    /\ plast.op = "parse_message" =>
          /\ plast.loop.pos <= SkipLimit
          /\ plast.attempts = 2
          /\ (SecondNewline(content) \in 1..SkipLimit)
                => plast.loop.pos = SecondNewline(content)

\* The loop has run over a file whose second newline character is the last
\* byte the loop may read, and the second attempt starts after it.
C38_Witness ==
    /\ plast.op = "parse_message"
    /\ content = File(SkipLimit + 2, {SkipLimit - 1, SkipLimit})
    /\ plast.loop.pos = SkipLimit
    /\ plast.loop.count = 0

\* C39: at every moment of an add_attachments call, also when it is
\* interrupted or a write fails, the message's file holds the complete
\* content it had or the complete content that was written anew; and the
\* temporary file is gone when the call has returned.
C39_AtomicReplace ==
    plast.op = "add_attachments" =>
       /\ \/ content = write_to_stream(plast.doc)
          \/ plast.at # "returned" /\ plast.tmp # <<>> /\ content = plast.tmp
          \/ plast.ok /\ content = plast.tmp
       /\ plast.at = "returned" => TmpPath \notin disk

\* The charset name cs without its letter case.
LowerCharset(cs) ==
    [k \in 1..Len(cs) |->
        CASE cs[k] = "U" -> "u"
          [] cs[k] = "T" -> "t"
          [] cs[k] = "F" -> "f"
          [] OTHER       -> cs[k]]

\* What the part of the file is to be stored as, under the option iconv.
DueContent(part, iconv) ==
    IF /\ iconv = 1
       /\ part.type = "text/plain"
       /\ part.charset # NoParam
       /\ LowerCharset(part.charset) # Utf8Lower
       /\ iconv_strndup(part.charset, part_data(part)) # NULL
    THEN strlen_prefix(iconv_strndup(part.charset, part_data(part)).bytes)
    ELSE part_data(part)

\* C40: part2obj converts the bytes of a part to UTF-8 only when the option
\* is set, the content type is text/plain, a charset is declared and that
\* charset is not utf-8 in whatever letter case; when the conversion fails
\* the part keeps its bytes and its length.
C40_ConvertedWhenDue ==
    (plast.op = "get_parts" /\ plast.attempts > 0 /\ Len(m_parts) = 1) =>
       objs[m_parts[1]].content = DueContent(content.body, plast.arg[1])

=============================================================================
